---------------------------- MODULE Spec2Model ----------------------------
(***************************************************************************)
(* A state-machine model of src/app.py: a project-management dashboard     *)
(* (users, projects, tasks, sprints, risks, time logs) driven by form      *)
(* handlers that go through DatabaseManager (the Repository) and           *)
(* AuthService.                                                            *)
(*                                                                         *)
(* One action is one form handler (one rerun of the page script that       *)
(* handles a submitted form), including every commit it makes.             *)
(*                                                                         *)
(* Units: hours are counted in half hours (the step of the "Log (h)"       *)
(* number_input), so 4.5 h is 9 and 2.5 h is 5.  Datetimes are counted in  *)
(* half days since a Monday 00:00, so a date (strftime('%Y-%m-%d')) is the *)
(* datetime divided by 2.                                                  *)
(***************************************************************************)
EXTENDS Integers, Sequences, FiniteSets, TLC

VARIABLES
    users,          \* table users:     id -> [username, email, password_hash, role]
    projects,       \* table projects:  id -> [status]
    tasks,          \* table tasks:     id -> [status, dependency_task_id, sprint_id, project_id]
    sprints,        \* table sprints:   id -> [status, project_id]
    risks,          \* table risks:     id -> [status, project_id]
    time_logs,      \* table time_logs: id -> [hours, log_date, task_id, user_id]
    session_state,  \* st.session_state: the keys present and their values
    now,            \* datetime.now(), in half days
    last,           \* the last handler: [op, arg (its inputs), calls (the Repository
                    \* calls it made), ret (what it went by), msg (what it showed)]
    view,           \* the derived view the last page render produced
    peer            \* the st.session_state of a second browser session on the
                    \* same database, NoPeer when one session uses the application

vars == <<users, projects, tasks, sprints, risks, time_logs, session_state, now, last, view,
         peer>>

---------------------------------------------------------------------------
(* Bounds of the model *)

MaxUsers == 5
MaxProjects == 3
MaxTasks == 4
MaxSprints == 2
MaxRisks == 2
MaxLogs == 3
WbsTasks == 3
RecursionLimit == 4

---------------------------------------------------------------------------
(* Values *)

\* Python's None in a nullable integer column (ids start at 1).
None == 0
\* peer when no second session is logged in
NoPeer == [is_authenticated |-> FALSE]
\* Python's None in a string-valued session field.
NoneStr == "None"

Roles == {"Admin", "Project Manager", "Team Member", "Viewer"}
KANBAN_STATUSES == <<"To Do", "In Progress", "In Review", "Done">>
TaskStatuses == {KANBAN_STATUSES[i] : i \in 1..Len(KANBAN_STATUSES)}
ProjectStatuses == {"Planning", "In Progress", "Completed", "Archived"}
RiskStatuses == {"Open", "Managed", "Closed"}
ManagerRoles == {"Admin", "Project Manager"}
KanbanRoles == {"Admin", "Project Manager", "Team Member"}
\* role_options of a register form that also offers Admin
RegisterRoles_WithAdmin == {"Team Member", "Project Manager", "Admin"}
RegisterRoles == {"Team Member", "Project Manager"}
main_pages == {"Dashboard", "Project Management", "Kanban Board", "Sprint Management",
               "Gantt & WBS", "Risk Register", "Reports & Analytics"}

Max(S) == CHOOSE x \in S : \A y \in S : y <= x

\* The id sqlite gives a new row of a table with an INTEGER PRIMARY KEY:
\* one more than the largest id in the table.
NewId(table) == IF DOMAIN table = {} THEN 1 ELSE Max(DOMAIN table) + 1

\* table with one more row
Insert(table, id, row) == [i \in DOMAIN table \cup {id} |-> IF i = id THEN row ELSE table[i]]

\* hashlib.sha256(password.encode()).hexdigest(): a one-way function of the
\* password, taken to be free of collisions on the passwords of the model.
hash_password(password) == <<"sha256", password>>

---------------------------------------------------------------------------
(* Seeding *)

\* The user with a username, or None (filter_by(username=...).first()).
UserByName(us, name) ==
    IF \E i \in DOMAIN us : us[i].username = name
    THEN CHOOSE i \in DOMAIN us : us[i].username = name
    ELSE None


\* A seeding that adds the three default accounts at every initialisation.
SeedUsersInto_Always(us) ==
    LET a == NewId(us) IN
    [i \in DOMAIN us \cup {a, a + 1, a + 2} |->
       CASE i = a     -> [username |-> "admin", email |-> "admin@tool.com",
                          password_hash |-> hash_password("adminpass"), role |-> "Admin"]
         [] i = a + 1 -> [username |-> "manager", email |-> "manager@tool.com",
                          password_hash |-> hash_password("managerpass"),
                          role |-> "Project Manager"]
         [] i = a + 2 -> [username |-> "member", email |-> "member@tool.com",
                          password_hash |-> hash_password("memberpass"),
                          role |-> "Team Member"]
         [] OTHER     -> us[i]]

\* DatabaseManager._seed_initial_data, users part: the three default accounts
\* are added only when no user is named 'admin'.
SeedUsersInto(us) ==
    IF UserByName(us, "admin") # None THEN us
    ELSE LET a == NewId(us) IN
         [i \in DOMAIN us \cup {a, a + 1, a + 2} |->
            CASE i = a     -> [username |-> "admin", email |-> "admin@tool.com",
                               password_hash |-> hash_password("adminpass"), role |-> "Admin"]
              [] i = a + 1 -> [username |-> "manager", email |-> "manager@tool.com",
                               password_hash |-> hash_password("managerpass"),
                               role |-> "Project Manager"]
              [] i = a + 2 -> [username |-> "member", email |-> "member@tool.com",
                               password_hash |-> hash_password("memberpass"),
                               role |-> "Team Member"]
              [] OTHER     -> us[i]]

\* DatabaseManager._seed_initial_data, demo part: runs only when the projects
\* table is empty.  d is the database as a record of its six tables.
_seed_initial_data(d) ==
    LET us == SeedUsersInto(d.users) IN
    IF DOMAIN d.projects # {} THEN [d EXCEPT !.users = us]
    ELSE
      LET admin == UserByName(us, "admin")
          proj_core == NewId(d.projects)
          proj_marketing == proj_core + 1
          sprint_1 == NewId(d.sprints)
          task1 == NewId(d.tasks)
          task2 == task1 + 1
          task3 == task1 + 2
          risk1 == NewId(d.risks)
          log1 == NewId(d.time_logs)
      IN [users |-> us,
          projects |-> Insert(Insert(d.projects, proj_core, [status |-> "In Progress"]),
                              proj_marketing, [status |-> "Planning"]),
          sprints |-> Insert(d.sprints, sprint_1, [status |-> "Active", project_id |-> proj_core]),
          tasks |-> Insert(Insert(Insert(d.tasks,
                       task1, [status |-> "In Progress", dependency_task_id |-> task2,
                               sprint_id |-> sprint_1, project_id |-> proj_core]),
                       task2, [status |-> "Done", dependency_task_id |-> None,
                               sprint_id |-> None, project_id |-> proj_core]),
                       task3, [status |-> "To Do", dependency_task_id |-> None,
                               sprint_id |-> None, project_id |-> proj_marketing]),
          risks |-> Insert(d.risks, risk1, [status |-> "Open", project_id |-> proj_core]),
          time_logs |-> Insert(d.time_logs, log1,
                               [hours |-> 9, log_date |-> now, task_id |-> task2,
                                user_id |-> admin])]

EmptyTable == [i \in {} |-> 0]
EmptyDb == [users |-> EmptyTable, projects |-> EmptyTable, tasks |-> EmptyTable,
            sprints |-> EmptyTable, risks |-> EmptyTable, time_logs |-> EmptyTable]
Db == [users |-> users, projects |-> projects, tasks |-> tasks,
       sprints |-> sprints, risks |-> risks, time_logs |-> time_logs]

\* db' = d
SetDb(d) ==
    /\ users' = d.users
    /\ projects' = d.projects
    /\ tasks' = d.tasks
    /\ sprints' = d.sprints
    /\ risks' = d.risks
    /\ time_logs' = d.time_logs

\* init_session_state on a fresh session
init_session_state ==
    [is_authenticated |-> FALSE, current_page |-> "Login", username |-> NoneStr,
     user_role |-> NoneStr, user_id |-> None, show_task_form |-> FALSE]

\* The state after the first run of main_app on an empty database:
\* init_session_state and the first DatabaseManager(), which seeds.
Init ==
    /\ peer = NoPeer
    /\ now = 0
    /\ LET d == _seed_initial_data(EmptyDb) IN
         /\ users = d.users
         /\ projects = d.projects
         /\ tasks = d.tasks
         /\ sprints = d.sprints
         /\ risks = d.risks
         /\ time_logs = d.time_logs
    /\ session_state = init_session_state
    /\ last = [op |-> "main_app", arg |-> <<>>, calls |-> <<>>, ret |-> TRUE, msg |-> "Please log in to access the tool."]
    /\ view = [name |-> "login_page"]

---------------------------------------------------------------------------
(* Repository: DatabaseManager.create / update / delete.                   *)
(* Each returns [ret, table, call]: the boolean the caller gets, the table  *)
(* after the commit or the rollback, and a record of the call: which        *)
(* except branch it took ("none": the commit went through).  fault is a     *)
(* storage error raised by the commit (any exception other than a violated  *)
(* constraint).                                                            *)

\* A users table whose email column is not declared unique.
IntegrityError_UsernameOnly(us, row) ==
    \E i \in DOMAIN us : us[i].username = row.username

\* The unique=True columns of User: username and email.
IntegrityError(us, row) ==
    \E i \in DOMAIN us : us[i].username = row.username \/ us[i].email = row.email

\* DatabaseManager.create: add, commit; on IntegrityError or any other
\* exception roll back and return False.
create(table, row, integrity_error, fault) ==
    IF integrity_error
    THEN [ret |-> FALSE, table |-> table,
          call |-> [fn |-> "create", error |-> "IntegrityError", ret |-> FALSE]]
    ELSE IF fault
    THEN [ret |-> FALSE, table |-> table,
          call |-> [fn |-> "create", error |-> "Exception", ret |-> FALSE]]
    ELSE [ret |-> TRUE, table |-> Insert(table, NewId(table), row),
          call |-> [fn |-> "create", error |-> "none", ret |-> TRUE]]

\* DatabaseManager.update: merge the (already modified) row, commit; on any
\* exception roll back and return False.
\* An update whose failed commit leaves the row written.
update_NoRollback(table, id, row, fault) ==
    IF fault
    THEN [ret |-> FALSE, table |-> [table EXCEPT ![id] = row],
          call |-> [fn |-> "update", error |-> "Exception", ret |-> FALSE]]
    ELSE [ret |-> TRUE, table |-> [table EXCEPT ![id] = row],
          call |-> [fn |-> "update", error |-> "none", ret |-> TRUE]]

update(table, id, row, fault) ==
    IF fault
    THEN [ret |-> FALSE, table |-> table,
          call |-> [fn |-> "update", error |-> "Exception", ret |-> FALSE]]
    ELSE [ret |-> TRUE, table |-> [table EXCEPT ![id] = row],
          call |-> [fn |-> "update", error |-> "none", ret |-> TRUE]]

---------------------------------------------------------------------------
(* Authentication and registration: login_page, AuthService *)

RegUsernames == {"", "admin", "alice", "bob"}
RegEmails == {"", "admin@tool.com", "alice@x.org", "bob@x.org"}
RegPasswords == {"", "pw1", "pw2"}
LoginUsernames == RegUsernames \cup {"manager", "member", "ghost"}
LoginPasswords == RegPasswords \cup {"adminpass", "managerpass", "memberpass"}

\* login_page, register_form
Register(new_username, new_email, new_password, confirm_password, new_role, fault) ==
    /\ ~session_state.is_authenticated
    /\ Cardinality(DOMAIN users) < MaxUsers
    /\ IF "" \in {new_username, new_email, new_password, confirm_password}
       THEN /\ last' = [op |-> "register", arg |-> <<new_username, new_email>>, calls |-> <<>>, ret |-> FALSE, msg |-> "All fields are required."]
            /\ users' = users
       ELSE IF new_password # confirm_password
       THEN /\ last' = [op |-> "register", arg |-> <<new_username, new_email>>, calls |-> <<>>, ret |-> FALSE, msg |-> "Passwords do not match."]
            /\ users' = users
       ELSE LET new_user == [username |-> new_username, email |-> new_email,
                             password_hash |-> hash_password(new_password),
                             role |-> new_role]
                r == create(users, new_user, IntegrityError(users, new_user), fault)
            IN /\ users' = r.table
               /\ last' = [op |-> "register", arg |-> <<new_username, new_email>>,
                           calls |-> <<r.call>>, ret |-> r.ret,
                           msg |-> IF r.ret THEN "Registration successful! Please log in."
                                            ELSE "Username or Email already exists."]
    /\ view' = [name |-> "login_page"]
    /\ UNCHANGED <<peer, projects, tasks, sprints, risks, time_logs, session_state, now>>

\* An authenticate that accepts any password of an existing user.
authenticate_NoPasswordCheck(username, password) ==
    LET user == UserByName(users, username) IN
    IF user # None
    THEN [ret |-> TRUE,
          session_state |-> [is_authenticated |-> TRUE,
                             username |-> users[user].username,
                             user_role |-> users[user].role,
                             user_id |-> user,
                             current_page |-> "Dashboard"] @@ session_state]
    ELSE [ret |-> FALSE, session_state |-> session_state]

\* An authenticate that remembers the username it found before it checks
\* the password.
authenticate_KeepsUsername(username, password) ==
    LET user == UserByName(users, username) IN
    IF user # None /\ users[user].password_hash = hash_password(password)
    THEN [ret |-> TRUE,
          session_state |-> [is_authenticated |-> TRUE,
                             username |-> users[user].username,
                             user_role |-> users[user].role,
                             user_id |-> user,
                             current_page |-> "Dashboard"] @@ session_state]
    ELSE IF user # None
    THEN [ret |-> FALSE,
          session_state |-> [username |-> users[user].username] @@ session_state]
    ELSE [ret |-> FALSE, session_state |-> session_state]

\* AuthService.authenticate: [ret, session_state]
authenticate(username, password) ==
    LET user == UserByName(users, username) IN
    IF user # None /\ users[user].password_hash = hash_password(password)
    THEN [ret |-> TRUE,
          session_state |-> [is_authenticated |-> TRUE,
                             username |-> users[user].username,
                             user_role |-> users[user].role,
                             user_id |-> user,
                             current_page |-> "Dashboard"] @@ session_state]
    ELSE [ret |-> FALSE, session_state |-> session_state]

\* login_page, login_form
Login(username, password) ==
    /\ ~session_state.is_authenticated
    /\ LET r == authenticate(username, password) IN
         /\ session_state' = r.session_state
         /\ last' = [op |-> "login", arg |-> <<username, password>>, calls |-> <<>>,
                     ret |-> r.ret,
                     msg |-> IF r.ret THEN "Welcome back" ELSE "Invalid username or password."]
         /\ view' = [name |-> IF r.ret THEN "dashboard_page" ELSE "login_page"]
    /\ UNCHANGED <<peer, users, projects, tasks, sprints, risks, time_logs, now>>

\* AuthService.logout and the rerun it asks for: the cleared session has no
\* db_manager, so get_db_and_auth builds a new DatabaseManager, which seeds.
Logout ==
    /\ session_state.is_authenticated
    /\ session_state' = [is_authenticated |-> FALSE, current_page |-> "Login"]
    /\ SetDb(_seed_initial_data(Db))
    /\ last' = [op |-> "logout", arg |-> <<>>, calls |-> <<>>, ret |-> TRUE, msg |-> "Please log in to access the tool."]
    /\ view' = [name |-> "login_page"]
    /\ UNCHANGED <<peer, now>>

---------------------------------------------------------------------------
(* gantt_page: the Work Breakdown Structure *)

Min(S) == CHOOSE x \in S : \A y \in S : x <= y

\* The ids of a set in the order a query returns the rows, by primary key.
RECURSIVE read_all(_)
read_all(ids) ==
    IF ids = {} THEN <<>>
    ELSE <<Min(ids)>> \o read_all(ids \ {Min(ids)})

\* project_tasks = db_manager.read_all(Task, project_id=selected_project_id)
project_tasks(selected_project_id) ==
    read_all({t \in DOMAIN tasks : tasks[t].project_id = selected_project_id})

\* dependent_ids = {t.dependency_task_id for t in project_tasks if t.dependency_task_id}
dependent_ids(pt) ==
    {tasks[pt[i]].dependency_task_id :
        i \in {j \in DOMAIN pt : tasks[pt[j]].dependency_task_id # None}}

\* Roots taken to be every task without a dependency, referenced or not.
top_level_tasks_NoDependency(pt) ==
    SelectSeq(pt, LAMBDA t : tasks[t].dependency_task_id = None)

\* Roots taken to be every task of the project.
top_level_tasks_All(pt) == pt

\* top_level_tasks = [t for t in project_tasks
\*                    if t.id not in dependent_ids and not t.dependency_task_id]
top_level_tasks(pt) ==
    SelectSeq(pt, LAMBDA t : t \notin dependent_ids(pt)
                             /\ tasks[t].dependency_task_id = None)

\* render_wbs_node(task, level): the lines it writes, one [task, level] per
\* st.markdown, the task's own line and then the lines of every task of
\* project_tasks that depends on it, one level deeper.  A call deeper than
\* RecursionLimit raises RecursionError, written as a line with no task.
RECURSIVE render_wbs_node(_, _, _)
RECURSIVE render_wbs_nodes(_, _, _)
render_wbs_node(pt, task, level) ==
    IF level > RecursionLimit
    THEN <<[task |-> None, level |-> level]>>
    ELSE <<[task |-> task, level |-> level]>>
         \o render_wbs_nodes(pt,
                SelectSeq(pt, LAMBDA t : tasks[t].dependency_task_id = task),
                level + 1)

\* for task in ts: render_wbs_node(task, level)
render_wbs_nodes(pt, ts, level) ==
    IF ts = <<>> THEN <<>>
    ELSE render_wbs_node(pt, Head(ts), level) \o render_wbs_nodes(pt, Tail(ts), level)

\* The WBS part of gantt_page for the selected project: what it reports
\* (kind and msg) and the lines it renders.
wbs(selected_project_id) ==
    LET pt == project_tasks(selected_project_id)
        nodes == render_wbs_nodes(pt, top_level_tasks(pt), 0)
    IN IF pt = <<>>
       THEN [kind |-> "info", msg |-> "No tasks available to generate WBS.",
             nodes |-> <<>>]
       ELSE IF top_level_tasks(pt) # <<>>
       THEN [kind |-> IF \E i \in DOMAIN nodes : nodes[i].task = None
                      THEN "RecursionError" ELSE "tree",
             msg |-> "Tasks are shown in order of completion (dependencies first).",
             nodes |-> nodes]
       ELSE [kind |-> "warning",
             msg |-> "No clear top-level tasks or dependencies found. All tasks might be independent.",
             nodes |-> <<>>]

\* gantt_page with the project selected in the selectbox; with no project
\* the page returns after its title.
gantt_page(selected_project_id) ==
    IF selected_project_id \in DOMAIN projects
    THEN [name |-> "Gantt & WBS", project |-> selected_project_id,
          wbs |-> wbs(selected_project_id)]
    ELSE [name |-> "Gantt & WBS"]

---------------------------------------------------------------------------
(* reports_page: the weekly hours rollup *)

RECURSIVE SumHours(_, _)
SumHours(logs, ids) ==
    IF ids = {} THEN 0
    ELSE LET l == CHOOSE x \in ids : TRUE
         IN logs[l].hours + SumHours(logs, ids \ {l})

\* 'User': log.user.username
User(l) == users[time_logs[l].user_id].username

\* 'Date': log.log_date.strftime('%Y-%m-%d'), the day of the datetime
Date(l) == time_logs[l].log_date \div 2

\* Weeks that run from Sunday to Saturday (the period 'W-SAT').
to_period_W_SAT(date) ==
    LET weekday == (date + 1) % 7
    IN <<date - weekday, date - weekday + 6>>

\* pd.to_datetime(date).to_period('W'): the week of the date, from its
\* Monday to its Sunday (day 0 is a Monday).
to_period_W(date) ==
    LET weekday == date % 7
    IN <<date - weekday, date - weekday + 6>>

\* 'Week' of a row of df_logs
Week(l) == to_period_W(Date(l))

\* weekly_summary = df_logs.groupby(['User', 'Week'])['Hours Logged'].sum()
weekly_summary ==
    LET keys == {<<User(l), Week(l)>> : l \in DOMAIN time_logs}
    IN [k \in keys |->
          SumHours(time_logs,
                   {l \in DOMAIN time_logs : <<User(l), Week(l)>> = k})]

\* velocity_data of the Velocity Chart tab: one row for every Sprint with
\* status Completed, with the Done tasks of the sprint whose estimates the
\* row sums.
velocity_data ==
    LET completed == SelectSeq(read_all(DOMAIN sprints),
                               LAMBDA x : sprints[x].status = "Completed")
    IN [i \in DOMAIN completed |->
          [Sprint |-> completed[i], Project |-> sprints[completed[i]].project_id,
           completed_tasks |-> {t \in DOMAIN tasks : /\ tasks[t].sprint_id = completed[i]
                                                     /\ tasks[t].status = "Done"}]]

\* reports_page, the Time Tracking Report tab and the Velocity Chart tab
reports_page ==
    (IF DOMAIN time_logs # {}
     THEN [name |-> "Reports & Analytics", weekly_summary |-> weekly_summary]
     ELSE [name |-> "Reports & Analytics"])
    @@ [velocity_data |-> velocity_data]

---------------------------------------------------------------------------
(* main_app: the page router *)

\* administration_page: its first lines refuse every session role but Admin.
administration_page ==
    IF session_state.user_role = "Admin"
    THEN [name |-> "Administration"]
    ELSE [name |-> "Administration",
          error |-> "Access Denied. Only Administrators can view this page."]

\* What the rerun renders for the page; gantt_page opens on the first
\* project of its selectbox.
render_page(page) ==
    IF page = "Gantt & WBS"
    THEN gantt_page(IF DOMAIN projects = {} THEN None ELSE Min(DOMAIN projects))
    ELSE IF page = "Reports & Analytics" THEN reports_page
    ELSE IF page = "Administration" THEN administration_page
    ELSE [name |-> page]

\* main_app, sidebar radio: the pages offered depend on the session role.
Navigate(page) ==
    /\ session_state.is_authenticated
    /\ page \in main_pages \cup (IF session_state.user_role = "Admin"
                                 THEN {"Administration"} ELSE {})
    /\ page # session_state.current_page
    /\ session_state' = [session_state EXCEPT !.current_page = page]
    /\ last' = [op |-> "navigate", arg |-> <<page>>, calls |-> <<>>, ret |-> TRUE, msg |-> ""]
    /\ view' = render_page(page)
    /\ UNCHANGED <<peer, users, projects, tasks, sprints, risks, time_logs, now>>

---------------------------------------------------------------------------
(* Repository delete and the aggregate query *)

ProjectTasks(d, p) == {t \in DOMAIN d.tasks : d.tasks[t].project_id = p}
ProjectSprints(d, p) == {x \in DOMAIN d.sprints : d.sprints[x].project_id = p}
ProjectRisks(d, p) == {r \in DOMAIN d.risks : d.risks[r].project_id = p}
TaskLogs(d, ts) == {l \in DOMAIN d.time_logs : d.time_logs[l].task_id \in ts}

Restrict(table, ids) == [i \in ids |-> table[i]]

\* A Project whose relationship to its risks carries no delete cascade: the
\* rows of the risks stay behind.
CascadeDelete_KeepsRisks(d, p) ==
    LET ts == ProjectTasks(d, p)
        ss == ProjectSprints(d, p)
        keep == DOMAIN d.tasks \ ts
    IN [users |-> d.users,
        projects |-> Restrict(d.projects, DOMAIN d.projects \ {p}),
        tasks |-> [t \in keep |->
                     [d.tasks[t] EXCEPT
                        !.dependency_task_id = IF @ \in ts THEN None ELSE @,
                        !.sprint_id = IF @ \in ss THEN None ELSE @]],
        sprints |-> Restrict(d.sprints, DOMAIN d.sprints \ ss),
        risks |-> d.risks,
        time_logs |-> Restrict(d.time_logs, DOMAIN d.time_logs \ TaskLogs(d, ts))]

\* A Task whose relationship to its time logs carries no delete cascade.
CascadeDelete_KeepsLogs(d, p) ==
    LET ts == ProjectTasks(d, p)
        ss == ProjectSprints(d, p)
        keep == DOMAIN d.tasks \ ts
    IN [users |-> d.users,
        projects |-> Restrict(d.projects, DOMAIN d.projects \ {p}),
        tasks |-> [t \in keep |->
                     [d.tasks[t] EXCEPT
                        !.dependency_task_id = IF @ \in ts THEN None ELSE @,
                        !.sprint_id = IF @ \in ss THEN None ELSE @]],
        sprints |-> Restrict(d.sprints, DOMAIN d.sprints \ ss),
        risks |-> Restrict(d.risks, DOMAIN d.risks \ ProjectRisks(d, p)),
        time_logs |-> d.time_logs]

\* A delete that takes every Risk with the Project, whatever its project.
CascadeDelete_AllRisks(d, p) ==
    LET ts == ProjectTasks(d, p)
        ss == ProjectSprints(d, p)
        keep == DOMAIN d.tasks \ ts
    IN [users |-> d.users,
        projects |-> Restrict(d.projects, DOMAIN d.projects \ {p}),
        tasks |-> [t \in keep |->
                     [d.tasks[t] EXCEPT
                        !.dependency_task_id = IF @ \in ts THEN None ELSE @,
                        !.sprint_id = IF @ \in ss THEN None ELSE @]],
        sprints |-> Restrict(d.sprints, DOMAIN d.sprints \ ss),
        risks |-> EmptyTable,
        time_logs |-> Restrict(d.time_logs, DOMAIN d.time_logs \ TaskLogs(d, ts))]

\* What session.delete(project) removes in its one commit, by the cascade
\* annotations: Project.tasks, Project.sprints and Project.risks are
\* cascade="all, delete-orphan", and so is Task.time_logs.  Task.depends_on
\* (backref dependent_tasks) and Sprint.tasks carry no cascade: a row that
\* stays and referred to a deleted Task or Sprint has the reference set to
\* NULL.
CascadeDelete(d, p) ==
    LET ts == ProjectTasks(d, p)
        ss == ProjectSprints(d, p)
        keep == DOMAIN d.tasks \ ts
    IN [users |-> d.users,
        projects |-> Restrict(d.projects, DOMAIN d.projects \ {p}),
        tasks |-> [t \in keep |->
                     [d.tasks[t] EXCEPT
                        !.dependency_task_id = IF @ \in ts THEN None ELSE @,
                        !.sprint_id = IF @ \in ss THEN None ELSE @]],
        sprints |-> Restrict(d.sprints, DOMAIN d.sprints \ ss),
        risks |-> Restrict(d.risks, DOMAIN d.risks \ ProjectRisks(d, p)),
        time_logs |-> Restrict(d.time_logs, DOMAIN d.time_logs \ TaskLogs(d, ts))]

\* DatabaseManager.delete of a Project: [ret, db]; on any exception roll
\* back and return False.
delete(d, p, fault) ==
    IF fault
    THEN [ret |-> FALSE, db |-> d,
          call |-> [fn |-> "delete", error |-> "Exception", ret |-> FALSE]]
    ELSE [ret |-> TRUE, db |-> CascadeDelete(d, p),
          call |-> [fn |-> "delete", error |-> "none", ret |-> TRUE]]

\* A sum over every TimeLog, whatever its task.
get_total_logged_hours_AllLogs(task_id) ==
    SumHours(time_logs, DOMAIN time_logs)

\* DatabaseManager.get_total_logged_hours
get_total_logged_hours(task_id) ==
    SumHours(time_logs, {l \in DOMAIN time_logs : time_logs[l].task_id = task_id})

---------------------------------------------------------------------------
(* projects_page *)

OnPage(page) ==
    /\ session_state.is_authenticated
    /\ session_state.current_page = page

\* "Update Project"
UpdateProject(p, new_status, fault) ==
    /\ OnPage("Project Management")
    /\ session_state.user_role \in ManagerRoles
    /\ p \in DOMAIN projects
    /\ LET r == update(projects, p, [projects[p] EXCEPT !.status = new_status], fault) IN
         /\ projects' = r.table
         /\ last' = [op |-> "update_project", arg |-> <<p, new_status>>, calls |-> <<r.call>>,
                     ret |-> r.ret,
                     msg |-> IF r.ret THEN "updated successfully!"
                                      ELSE "Failed to update project."]
    /\ view' = [name |-> "Project Management"]
    /\ UNCHANGED <<peer, users, tasks, sprints, risks, time_logs, session_state, now>>

\* "Delete Project"
DeleteProject(p, fault) ==
    /\ OnPage("Project Management")
    /\ session_state.user_role \in ManagerRoles
    /\ p \in DOMAIN projects
    /\ LET r == delete(Db, p, fault) IN
         /\ SetDb(r.db)
         /\ last' = [op |-> "delete_project", arg |-> <<p>>, calls |-> <<r.call>>,
                     ret |-> r.ret,
                     msg |-> IF r.ret THEN "and all associated data deleted."
                                      ELSE "Failed to delete project."]
    /\ view' = [name |-> "Project Management"]
    /\ UNCHANGED <<peer, session_state, now>>

\* "Create Project"
CreateProject(project_name, fault) ==
    /\ OnPage("Project Management")
    /\ session_state.user_role \in ManagerRoles
    /\ Cardinality(DOMAIN projects) < MaxProjects
    /\ IF project_name = ""
       THEN /\ projects' = projects
            /\ last' = [op |-> "create_project", arg |-> <<project_name>>, calls |-> <<>>,
                        ret |-> FALSE,
                        msg |-> "Project Name is required."]
       ELSE LET r == create(projects, [status |-> "Planning"], FALSE, fault) IN
            /\ projects' = r.table
            /\ last' = [op |-> "create_project", arg |-> <<project_name>>,
                        calls |-> <<r.call>>, ret |-> r.ret,
                        msg |-> IF r.ret THEN "created successfully!"
                                         ELSE "Failed to create project."]
    /\ view' = [name |-> "Project Management"]
    /\ UNCHANGED <<peer, users, tasks, sprints, risks, time_logs, session_state, now>>

---------------------------------------------------------------------------
(* kanban_page *)

\* "Add New Task": shown to Admin and Project Manager only
OpenTaskForm ==
    /\ OnPage("Kanban Board")
    /\ session_state.user_role \in ManagerRoles
    /\ DOMAIN projects # {}
    /\ session_state' = [show_task_form |-> TRUE] @@ session_state
    /\ last' = [op |-> "open_task_form", arg |-> <<>>, calls |-> <<>>, ret |-> TRUE, msg |-> ""]
    /\ view' = [name |-> "Kanban Board"]
    /\ UNCHANGED <<peer, users, projects, tasks, sprints, risks, time_logs, now>>

show_task_form ==
    IF "show_task_form" \in DOMAIN session_state THEN session_state.show_task_form ELSE FALSE

\* new_task_form, "Cancel"
CancelTaskForm ==
    /\ OnPage("Kanban Board")
    /\ DOMAIN projects # {}
    /\ show_task_form
    /\ session_state' = [show_task_form |-> FALSE] @@ session_state
    /\ last' = [op |-> "cancel_task_form", arg |-> <<>>, calls |-> <<>>, ret |-> TRUE, msg |-> ""]
    /\ view' = [name |-> "Kanban Board"]
    /\ UNCHANGED <<peer, users, projects, tasks, sprints, risks, time_logs, now>>

\* A form that offers the sprints of every project.
sprint_options_AllProjects(p) == DOMAIN sprints

\* sprint_options / sprint_map of kanban_page: the sprints read for the
\* selected project p.
sprint_options(p) == ProjectSprints(Db, p)

\* A form that takes any task id as the dependency, stored or not.
dependency_options_AnyId(p) == 1..(MaxTasks + 1)

\* A form that offers the tasks of every project as dependencies.
dependency_options_AllProjects(p) == {t \in DOMAIN tasks : tasks[t].status # "Done"}

\* dependency_tasks of new_task_form: the tasks read for the selected
\* project p that are not Done.
dependency_options(p) == {t \in ProjectTasks(Db, p) : tasks[t].status # "Done"}

\* new_task_form, "Create Task", for the selected project p.  The form
\* offers as dependency the tasks of p that are not Done, and as sprint the
\* sprints of p.
CreateTask(p, task_title, dependency_id, sprint_id, fault) ==
    /\ OnPage("Kanban Board")
    /\ show_task_form
    /\ p \in DOMAIN projects
    /\ dependency_id \in {None} \cup dependency_options(p)
    /\ sprint_id \in {None} \cup sprint_options(p)
    /\ Cardinality(DOMAIN tasks) < MaxTasks
    /\ IF task_title = ""
       THEN /\ UNCHANGED <<peer, tasks, session_state>>
            /\ last' = [op |-> "create_task", arg |-> <<p, dependency_id, sprint_id>>,
                        calls |-> <<>>, ret |-> FALSE, msg |-> "Task Title is required."]
       ELSE LET new_task == [status |-> "To Do", dependency_task_id |-> dependency_id,
                             sprint_id |-> sprint_id, project_id |-> p]
                r == create(tasks, new_task, FALSE, fault)
            IN /\ tasks' = r.table
               /\ session_state' = IF r.ret THEN [show_task_form |-> FALSE] @@ session_state
                                            ELSE session_state
               /\ last' = [op |-> "create_task", arg |-> <<p, dependency_id, sprint_id>>,
                           calls |-> <<r.call>>, ret |-> r.ret,
                           msg |-> IF r.ret THEN "created." ELSE "Failed to create task."]
    /\ view' = [name |-> "Kanban Board"]
    /\ UNCHANGED <<peer, users, projects, sprints, risks, time_logs, now>>

\* A TimeLog of whole hours only: the half hour of 2.5 is dropped.
new_log_WholeHours(t, hours_to_log) ==
    [hours |-> (hours_to_log \div 2) * 2, log_date |-> now, task_id |-> t,
     user_id |-> session_state.user_id]

\* A handler that creates the TimeLog whatever the hours entered.
logs_hours_Always(hours_to_log) == TRUE

\* if hours_to_log > 0: the TimeLog is created
logs_hours(hours_to_log) == hours_to_log > 0

\* new_log = TimeLog(hours=hours_to_log, task_id=task.id, user_id=..., log_date=now)
new_log(t, hours_to_log) ==
    [hours |-> hours_to_log, log_date |-> now, task_id |-> t,
     user_id |-> session_state.user_id]

\* st.session_state.db_manager is tracked where a second session writes to
\* the same database: it maps the tasks whose objects the session's ORM holds
\* unexpired to the status they were loaded with.  A query does not refresh
\* an unexpired object; a commit or a rollback of the session expires all of
\* them.  Where the key is not tracked the session is the only writer and
\* its objects carry the stored values.
HoldsTask(ss, t) == "db_manager" \in DOMAIN ss /\ t \in DOMAIN ss.db_manager

\* task.status as the session's object of task t has it
loaded_status(t) ==
    IF HoldsTask(session_state, t) THEN session_state.db_manager[t] ELSE tasks[t].status

\* A flush that writes the status only while the stored one is still the
\* one the object was loaded with.
flush_status_Versioned(t, new_status) ==
    IF loaded_status(t) # new_status /\ loaded_status(t) = tasks[t].status
    THEN [tasks EXCEPT ![t].status = new_status]
    ELSE tasks

\* The tasks table the flush of task.status = new_status asks for: the
\* UPDATE is issued only if the value differs from the one the object was
\* loaded with, and it names the row by its id alone.
flush_status(t, new_status) ==
    IF loaded_status(t) # new_status
    THEN [tasks EXCEPT ![t].status = new_status]
    ELSE tasks

\* The session after a handler on the board of task t's project committed
\* (ok: it reruns, and the rerun reads the tasks of that project) or rolled
\* back.
after_commit(ss, ts, t, ok) ==
    IF "db_manager" \in DOMAIN ss
    THEN [ss EXCEPT !.db_manager =
            IF ok THEN [i \in {j \in DOMAIN ts : ts[j].project_id = ts[t].project_id}
                           |-> ts[i].status]
            ELSE EmptyTable]
    ELSE ss

\* What a handler on task t notes beside its record when a second session
\* is about: the status on its object and the stored status.
beside(t) ==
    IF "db_manager" \in DOMAIN session_state
    THEN [task_status |-> loaded_status(t), stored_status |-> tasks[t].status]
    ELSE <<>>

\* A status select that offers only the task's status and the next one.
status_options_NextOnly(t) ==
    LET i == CHOOSE k \in 1..Len(KANBAN_STATUSES) : KANBAN_STATUSES[k] = tasks[t].status
    IN {KANBAN_STATUSES[k] : k \in {i, i + 1} \cap 1..Len(KANBAN_STATUSES)}

\* The options of the status select on the card of task t: KANBAN_STATUSES,
\* whatever the task's status.
status_options(t) == TaskStatuses

\* "Move & Log" as one unit: the TimeLog is kept only if the update of the
\* task succeeded.
MoveAndLog_Atomic(t, new_status, hours_to_log, fault_create, fault_update) ==
    /\ OnPage("Kanban Board")
    /\ session_state.user_role \in KanbanRoles
    /\ t \in DOMAIN tasks
    /\ tasks[t].project_id \in DOMAIN projects
    /\ new_status \in status_options(t)
    /\ hours_to_log > 0 => Cardinality(DOMAIN time_logs) < MaxLogs
    /\ LET moved == [tasks EXCEPT ![t].status = new_status]
           c == IF hours_to_log > 0
                THEN create(time_logs, new_log(t, hours_to_log), FALSE, fault_create)
                ELSE [ret |-> TRUE, table |-> time_logs, call |-> <<>>]
           u == update(tasks, t, moved[t], fault_update)
       IN /\ time_logs' = IF u.ret THEN c.table ELSE time_logs
          /\ tasks' = IF c.ret THEN u.table ELSE tasks
          /\ last' = [op |-> "move_and_log", arg |-> <<t, new_status, hours_to_log>>,
                      calls |-> IF hours_to_log > 0 THEN <<c.call, u.call>> ELSE <<u.call>>,
                      ret |-> u.ret,
                      msg |-> IF u.ret THEN "moved and logged" ELSE "Failed to update task."]
    /\ view' = [name |-> "Kanban Board"]
    /\ UNCHANGED <<peer, users, projects, sprints, risks, session_state, now>>

\* "Move & Log" on the card of task t.  The handler sets task.status on the
\* object held by the ORM session, then, if hours_to_log > 0, calls
\* create(new_log), then update(task).  A commit writes every pending change
\* of the session, so the commit inside create also writes the new status;
\* a rollback discards every pending change, so a failed create also drops
\* the new status, and the update that follows then has nothing to write.
\* The handler ignores what create returns and reports what update returns.
MoveAndLog(t, new_status, hours_to_log, fault_create, fault_update) ==
    /\ OnPage("Kanban Board")
    /\ session_state.user_role \in KanbanRoles
    /\ t \in DOMAIN tasks
    /\ tasks[t].project_id \in DOMAIN projects
    /\ new_status \in status_options(t)
    /\ logs_hours(hours_to_log) => Cardinality(DOMAIN time_logs) < MaxLogs
    /\ LET moved == flush_status(t, new_status)
           c == IF logs_hours(hours_to_log)
                THEN create(time_logs, new_log(t, hours_to_log), FALSE, fault_create)
                ELSE [ret |-> TRUE, table |-> time_logs, call |-> <<>>]
           \* the tasks table and the pending status after the create
           committed == IF logs_hours(hours_to_log) /\ c.ret THEN moved ELSE tasks
           pending == IF logs_hours(hours_to_log) THEN committed ELSE moved
           u == update(committed, t, pending[t], fault_update)
       IN /\ time_logs' = c.table
          /\ tasks' = u.table
          /\ last' = [op |-> "move_and_log", arg |-> <<t, new_status, hours_to_log>>,
                      calls |-> IF logs_hours(hours_to_log) THEN <<c.call, u.call>> ELSE <<u.call>>,
                      ret |-> u.ret,
                      msg |-> IF u.ret THEN "moved and logged" ELSE "Failed to update task."]
                     @@ beside(t)
          /\ session_state' = after_commit(session_state, tasks', t, u.ret)
    /\ view' = [name |-> "Kanban Board"]
    /\ UNCHANGED <<peer, users, projects, sprints, risks, now>>

---------------------------------------------------------------------------
(* sprint_page *)

\* "Create Sprint" with new_sprint_form shown to every role.
CreateSprint_AnyRole(p, fault) ==
    /\ OnPage("Sprint Management")
    /\ p \in DOMAIN projects
    /\ Cardinality(DOMAIN sprints) < MaxSprints
    /\ LET r == create(sprints, [status |-> "Planning", project_id |-> p], FALSE, fault) IN
         /\ sprints' = r.table
         /\ last' = [op |-> "create_sprint", arg |-> <<p>>, calls |-> <<r.call>>,
                     ret |-> r.ret,
                     msg |-> IF r.ret THEN "Sprint created!" ELSE "Failed to create sprint."]
    /\ view' = [name |-> "Sprint Management"]
    /\ UNCHANGED <<peer, users, projects, tasks, risks, time_logs, session_state, now>>

\* A Sprint model whose status defaults to Completed.
Sprint_status_default_Completed == "Completed"

\* Sprint.status = Column(String, default="Planning")
Sprint_status_default == "Planning"

\* "Create Sprint" for the selected project p
CreateSprint(p, fault) ==
    /\ OnPage("Sprint Management")
    /\ session_state.user_role \in ManagerRoles
    /\ p \in DOMAIN projects
    /\ Cardinality(DOMAIN sprints) < MaxSprints
    /\ LET r == create(sprints, [status |-> Sprint_status_default, project_id |-> p], FALSE, fault) IN
         /\ sprints' = r.table
         /\ last' = [op |-> "create_sprint", arg |-> <<p>>, calls |-> <<r.call>>,
                     ret |-> r.ret,
                     msg |-> IF r.ret THEN "Sprint created!" ELSE "Failed to create sprint."]
    /\ view' = [name |-> "Sprint Management"]
    /\ UNCHANGED <<peer, users, projects, tasks, risks, time_logs, session_state, now>>

\* Task.sprint: the Sprint row the task's sprint_id refers to, if any
HasSprint(t) == tasks[t].sprint_id \in DOMAIN sprints

\* A backlog that lists every task of the project, in a sprint or not.
backlog_tasks_All(p) == ProjectTasks(Db, p)

\* backlog_tasks = [t for t in read_all(Task, project_id=...) if not t.sprint]
backlog_tasks(p) == {t \in ProjectTasks(Db, p) : ~HasSprint(t)}

\* "Move to Sprint": a backlog task of the selected project p to a sprint of
\* p.  The form is shown whatever the session's role.
MoveToSprint(p, task_to_assign, target_sprint, fault) ==
    /\ OnPage("Sprint Management")
    /\ p \in DOMAIN projects
    /\ task_to_assign \in backlog_tasks(p)
    /\ target_sprint \in ProjectSprints(Db, p)
    /\ LET r == update(tasks, task_to_assign,
                       [tasks[task_to_assign] EXCEPT !.sprint_id = target_sprint], fault) IN
         /\ tasks' = r.table
         /\ last' = [op |-> "move_to_sprint", arg |-> <<task_to_assign, target_sprint>>,
                     calls |-> <<r.call>>, ret |-> r.ret,
                     msg |-> IF r.ret THEN "moved to sprint" ELSE "Failed to assign task."]
    /\ view' = [name |-> "Sprint Management"]
    /\ UNCHANGED <<peer, users, projects, sprints, risks, time_logs, session_state, now>>

---------------------------------------------------------------------------
(* risk_register_page *)

\* "Register Risk" for the selected project p
CreateRisk(p, risk_name, fault) ==
    /\ OnPage("Risk Register")
    /\ session_state.user_role \in ManagerRoles
    /\ p \in DOMAIN projects
    /\ Cardinality(DOMAIN risks) < MaxRisks
    /\ IF risk_name = ""
       THEN /\ risks' = risks
            /\ last' = [op |-> "create_risk", arg |-> <<p>>, calls |-> <<>>, ret |-> FALSE,
                        msg |-> "Risk Title is required."]
       ELSE LET r == create(risks, [status |-> "Open", project_id |-> p], FALSE, fault) IN
            /\ risks' = r.table
            /\ last' = [op |-> "create_risk", arg |-> <<p>>, calls |-> <<r.call>>,
                        ret |-> r.ret,
                        msg |-> IF r.ret THEN "Risk successfully registered."
                                         ELSE "Failed to register risk."]
    /\ view' = [name |-> "Risk Register"]
    /\ UNCHANGED <<peer, users, projects, tasks, sprints, time_logs, session_state, now>>

\* "Update Risk"
UpdateRisk(selected_risk_id, new_status, fault) ==
    /\ OnPage("Risk Register")
    /\ session_state.user_role \in ManagerRoles
    /\ selected_risk_id \in DOMAIN risks
    /\ risks[selected_risk_id].project_id \in DOMAIN projects
    /\ LET r == update(risks, selected_risk_id,
                       [risks[selected_risk_id] EXCEPT !.status = new_status], fault) IN
         /\ risks' = r.table
         /\ last' = [op |-> "update_risk", arg |-> <<selected_risk_id, new_status>>,
                     calls |-> <<r.call>>, ret |-> r.ret,
                     msg |-> IF r.ret THEN "Risk updated successfully."
                                      ELSE "Failed to update risk."]
    /\ view' = [name |-> "Risk Register"]
    /\ UNCHANGED <<peer, users, projects, tasks, sprints, time_logs, session_state, now>>

---------------------------------------------------------------------------
(* administration_page *)

\* A rerun of the Administration page (any widget of it touched, or the
\* page routed to).
AdministrationPage ==
    /\ OnPage("Administration")
    /\ view' = administration_page
    /\ last' = [op |-> "administration_page", arg |-> <<>>, calls |-> <<>>,
                ret |-> session_state.user_role = "Admin",
                msg |-> IF session_state.user_role = "Admin" THEN ""
                        ELSE "Access Denied. Only Administrators can view this page."]
    /\ UNCHANGED <<peer, users, projects, tasks, sprints, risks, time_logs, session_state, now>>

\* "Update Role" on a page that does not return for the other roles.
UpdateRole_NoAccessCheck(user_to_update, new_role, fault) ==
    /\ OnPage("Administration")
    /\ user_to_update \in DOMAIN users
    /\ LET r == update(users, user_to_update,
                       [users[user_to_update] EXCEPT !.role = new_role], fault) IN
         /\ users' = r.table
         /\ last' = [op |-> "update_role", arg |-> <<user_to_update, new_role>>,
                     calls |-> <<r.call>>, ret |-> r.ret,
                     msg |-> IF r.ret THEN "Role updated" ELSE "Failed to update user role."]
    /\ view' = [name |-> "Administration"]
    /\ UNCHANGED <<peer, projects, tasks, sprints, risks, time_logs, session_state, now>>

\* "Update Role"
UpdateRole(user_to_update, new_role, fault) ==
    /\ OnPage("Administration")
    /\ session_state.user_role = "Admin"
    /\ user_to_update \in DOMAIN users
    /\ LET r == update(users, user_to_update,
                       [users[user_to_update] EXCEPT !.role = new_role], fault) IN
         /\ users' = r.table
         /\ last' = [op |-> "update_role", arg |-> <<user_to_update, new_role>>,
                     calls |-> <<r.call>>, ret |-> r.ret,
                     msg |-> IF r.ret THEN "Role updated" ELSE "Failed to update user role."]
    /\ view' = [name |-> "Administration"]
    /\ UNCHANGED <<peer, projects, tasks, sprints, risks, time_logs, session_state, now>>

---------------------------------------------------------------------------
(* gantt_page *)

\* "Select Project for Visualization": the page is rendered for project p
GanttPage(p) ==
    /\ OnPage("Gantt & WBS")
    /\ p \in DOMAIN projects
    /\ view' = gantt_page(p)
    /\ last' = [op |-> "gantt_page", arg |-> <<p>>, calls |-> <<>>, ret |-> TRUE,
                msg |-> view'.wbs.msg]
    /\ UNCHANGED <<peer, users, projects, tasks, sprints, risks, time_logs, session_state, now>>

---------------------------------------------------------------------------
(* Specifications *)

\* The inputs the model gives the forms
Titles == {"", "title"}
LogHours == {0, 5}
SeedLogins == {<<"manager", "managerpass">>, <<"member", "memberpass">>}

RegisterStep(fault) ==
    \E u \in RegUsernames, e \in RegEmails, p \in RegPasswords, c \in RegPasswords,
       r \in RegisterRoles : Register(u, e, p, c, r, fault)
LoginStep == \E u \in LoginUsernames, p \in LoginPasswords : Login(u, p)
LoginAs(logins) == \E l \in logins : Login(l[1], l[2])
NavigateStep(pages) == \E page \in pages : Navigate(page)
UpdateProjectStep(fault) ==
    \E p \in DOMAIN projects, st \in ProjectStatuses : UpdateProject(p, st, fault)
DeleteProjectStep(fault) == \E p \in DOMAIN projects : DeleteProject(p, fault)
CreateProjectStep(fault) == \E n \in Titles : CreateProject(n, fault)
CreateTaskStep(fault) ==
    \E p \in DOMAIN projects, n \in Titles, dep \in {None} \cup DOMAIN tasks,
       sp \in {None} \cup DOMAIN sprints : CreateTask(p, n, dep, sp, fault)
MoveAndLogStep(fault_create, fault_update) ==
    \E t \in DOMAIN tasks, st \in TaskStatuses, h \in LogHours :
        MoveAndLog(t, st, h, fault_create, fault_update)
\* Move & Log with the status select left at its default, the task's status
LogOnlyStep(fault_create, fault_update) ==
    \E t \in DOMAIN tasks, h \in LogHours \ {0} :
        MoveAndLog(t, tasks[t].status, h, fault_create, fault_update)
CreateSprintStep(fault) == \E p \in DOMAIN projects : CreateSprint(p, fault)
MoveToSprintStep(fault) ==
    \E p \in DOMAIN projects, t \in DOMAIN tasks, sp \in DOMAIN sprints :
        MoveToSprint(p, t, sp, fault)
CreateRiskStep(fault) == \E p \in DOMAIN projects, n \in Titles : CreateRisk(p, n, fault)
UpdateRiskStep(fault) ==
    \E r \in DOMAIN risks, st \in RiskStatuses : UpdateRisk(r, st, fault)
UpdateRoleStep(fault) == \E u \in DOMAIN users, r \in Roles : UpdateRole(u, r, fault)

\* The application over a store whose commits fail only on a violated
\* constraint.
Next ==
    \/ RegisterStep(FALSE)
    \/ LoginStep
    \/ Logout
    \/ NavigateStep(main_pages \cup {"Administration"})
    \/ UpdateProjectStep(FALSE)
    \/ DeleteProjectStep(FALSE)
    \/ CreateProjectStep(FALSE)
    \/ OpenTaskForm
    \/ CancelTaskForm
    \/ CreateTaskStep(FALSE)
    \/ MoveAndLogStep(FALSE, FALSE)
    \/ CreateSprintStep(FALSE)
    \/ MoveToSprintStep(FALSE)
    \/ CreateRiskStep(FALSE)
    \/ UpdateRiskStep(FALSE)
    \/ UpdateRoleStep(FALSE)

Spec == Init /\ [][Next]_vars

\* Spec restricted to the login page: registration, login, logout.
NextAuth ==
    \/ RegisterStep(FALSE)
    \/ LoginStep
    \/ Logout

SpecAuth == Init /\ [][NextAuth]_vars

\* Spec restricted to the Kanban board's Move & Log and the deletion of
\* projects, by the seeded manager and member.
NextKanban ==
    \/ LoginAs(SeedLogins)
    \/ Logout
    \/ NavigateStep({"Kanban Board", "Project Management"})
    \/ MoveAndLogStep(FALSE, FALSE)
    \/ DeleteProjectStep(FALSE)

SpecKanban == Init /\ [][NextKanban]_vars

\* Spec restricted to what builds up and deletes a project: the creation of
\* tasks, sprints and risks, sprint assignment, time logging with the status
\* left as it is, and the deletion of projects, by the seeded manager.
(* The schedule of SpecProject: rows are added while both seeded projects  *)
(* exist, and then projects are deleted.                                   *)
NothingDeleted == DOMAIN projects = {1, 2}

NextProject ==
    \/ LoginAs({<<"manager", "managerpass">>})
    \/ NavigateStep({"Kanban Board", "Project Management", "Sprint Management",
                     "Risk Register"})
    \/ (NothingDeleted /\ OpenTaskForm)
    \/ (NothingDeleted /\ CreateTaskStep(FALSE))
    \/ (NothingDeleted /\ CreateSprintStep(FALSE))
    \/ (NothingDeleted /\ MoveToSprintStep(FALSE))
    \/ (NothingDeleted /\ CreateRiskStep(FALSE))
    \/ DeleteProjectStep(FALSE)

SpecProject == Init /\ [][NextProject]_vars

\* The application over a store whose commits can fail: registration,
\* Move & Log to "Done" and the deletion of projects, each commit failing
\* or not.
RegisterFrom(forms, fault) ==
    \E f \in forms : Register(f[1], f[2], f[3], f[3], "Team Member", fault)

FaultForms == {<<"alice", "alice@x.org", "pw1">>, <<"admin", "bob@x.org", "pw1">>}

NextFault ==
    \/ \E fault \in BOOLEAN : RegisterFrom(FaultForms, fault)
    \/ LoginAs({<<"manager", "managerpass">>})
    \/ NavigateStep({"Kanban Board", "Project Management"})
    \/ \E t \in DOMAIN tasks, h \in LogHours, fault_create, fault_update \in BOOLEAN :
          MoveAndLog(t, "Done", h, fault_create, fault_update)
    \/ \E fault \in BOOLEAN : DeleteProjectStep(fault)

SpecFault == Init /\ [][NextFault]_vars

\* The WBS builder on every table of up to WbsTasks tasks: each task is in
\* one of the two seeded projects and refers to no task or to any task of
\* the table as its dependency, chains and cycles included.
WbsRows == [status : {"To Do"}, dependency_task_id : {None} \cup 1..WbsTasks,
            sprint_id : {None}, project_id : {1, 2}]

InitWBS ==
    /\ peer = NoPeer
    /\ now = 0
    /\ LET d == _seed_initial_data(EmptyDb) IN
         /\ users = d.users
         /\ projects = d.projects
         /\ sprints = d.sprints
         /\ risks = d.risks
    /\ time_logs = EmptyTable
    /\ \E n \in 0..WbsTasks :
         /\ tasks \in [1..n -> WbsRows]
         /\ \A t \in 1..n : tasks[t].dependency_task_id \in {None} \cup 1..n
    /\ session_state = init_session_state
    /\ last = [op |-> "main_app", arg |-> <<>>, calls |-> <<>>, ret |-> TRUE,
               msg |-> "Please log in to access the tool."]
    /\ view = [name |-> "login_page"]

GanttPageStep == \E p \in DOMAIN projects : GanttPage(p)

NextWBS ==
    \/ LoginAs({<<"member", "memberpass">>})
    \/ NavigateStep({"Dashboard", "Gantt & WBS"})
    \/ GanttPageStep

SpecWBS == InitWBS /\ [][NextWBS]_vars

\* The weekly rollup on every table of up to MaxLogs TimeLogs of the users
\* admin and manager on task 2, of 2.5 or 4.5 hours, dated on the Monday
\* or the Sunday of the first or of the second week.
LogDates == {1, 13, 14, 27}

LogRows == [hours : {5, 9}, log_date : LogDates, task_id : {2}, user_id : {1, 2}]

InitWeekly ==
    /\ peer = NoPeer
    /\ now = Max(LogDates)
    /\ LET d == _seed_initial_data(EmptyDb) IN
         /\ users = d.users
         /\ projects = d.projects
         /\ tasks = d.tasks
         /\ sprints = d.sprints
         /\ risks = d.risks
    /\ \E n \in 0..MaxLogs : time_logs \in [1..n -> LogRows]
    /\ session_state = init_session_state
    /\ last = [op |-> "main_app", arg |-> <<>>, calls |-> <<>>, ret |-> TRUE,
               msg |-> "Please log in to access the tool."]
    /\ view = [name |-> "login_page"]

NextWeekly ==
    \/ LoginAs({<<"member", "memberpass">>})
    \/ NavigateStep({"Dashboard", "Reports & Analytics"})

SpecWeekly == InitWeekly /\ [][NextWeekly]_vars

\* The forms that manage projects, tasks, sprints and risks, each on the
\* project its selectbox opens on (the first), in the sessions of the seeded
\* admin, manager and member, the member also after the admin made it a
\* Viewer.  Rows are added while both seeded projects exist.
SeedUserLogins == SeedLogins \cup {<<"admin", "adminpass">>}

FirstProject == Min(DOMAIN projects)

NextRoles ==
    \/ LoginAs(SeedUserLogins)
    \/ Logout
    \/ NavigateStep({"Project Management", "Kanban Board", "Sprint Management",
                     "Risk Register", "Administration"})
    \/ \E u \in DOMAIN users : UpdateRole(u, "Viewer", FALSE) /\ users[u].username = "member"
    \/ (NothingDeleted /\ CreateProject("title", FALSE))
    \/ (projects # <<>> /\ UpdateProject(FirstProject, "Completed", FALSE))
    \/ (projects # <<>> /\ DeleteProject(FirstProject, FALSE))
    \/ (NothingDeleted /\ OpenTaskForm)
    \/ (NothingDeleted /\ CreateTask(FirstProject, "title", None, None, FALSE))
    \/ (NothingDeleted /\ CreateSprint(FirstProject, FALSE))
    \/ (NothingDeleted /\ CreateRisk(FirstProject, "title", FALSE))
    \/ \E r \in DOMAIN risks : UpdateRisk(r, "Closed", FALSE)

SpecRoles == Init /\ [][NextRoles]_vars


\* Registration and the Administration page.  A session is drawn for every
\* seeded user, with every session role, on the Dashboard or routed to the
\* Administration page, so that administration_page's own check of the role
\* is exercised (the sidebar offers the page to Admin only).
RegisterAs(forms, fault) ==
    \E f \in forms, r \in RegisterRoles : Register(f[1], f[2], f[3], f[3], r, fault)

AdminForms == {<<"alice", "alice@x.org", "pw1">>}

InitAdmin ==
    /\ peer = NoPeer
    /\ now = 0
    /\ LET d == _seed_initial_data(EmptyDb) IN
         /\ users = d.users
         /\ projects = d.projects
         /\ tasks = d.tasks
         /\ sprints = d.sprints
         /\ risks = d.risks
         /\ time_logs = d.time_logs
    /\ \/ session_state = init_session_state
       \/ \E u \in DOMAIN users, r \in Roles, page \in {"Dashboard", "Administration"} :
             session_state = [is_authenticated |-> TRUE, current_page |-> page,
                              username |-> users[u].username, user_role |-> r,
                              user_id |-> u, show_task_form |-> FALSE]
    /\ last = [op |-> "main_app", arg |-> <<>>, calls |-> <<>>, ret |-> TRUE,
               msg |-> ""]
    /\ view = IF session_state.is_authenticated
              THEN render_page(session_state.current_page)
              ELSE [name |-> "login_page"]

NextAdmin ==
    \/ RegisterAs(AdminForms, FALSE)
    \/ LoginAs(SeedUserLogins \cup {<<"alice", "pw1">>})
    \/ Logout
    \/ NavigateStep({"Dashboard", "Administration"})
    \/ AdministrationPage
    \/ UpdateRoleStep(FALSE)

SpecAdmin == InitAdmin /\ [][NextAdmin]_vars


\* Two browser sessions on the same database, the manager's and the
\* member's, both on the Kanban board with the seeded tasks loaded; either
\* moves the tasks of TwoSessionTasks, and the script runs of the two
\* interleave.
TwoSessionTasks == {1, 3}

\* The script runs for the other session from here on.
SwitchSession ==
    /\ peer.is_authenticated
    /\ session_state' = peer
    /\ peer' = session_state
    /\ last' = [op |-> "switch_session", arg |-> <<>>, calls |-> <<>>, ret |-> TRUE,
                msg |-> ""]
    /\ view' = [name |-> peer.current_page]
    /\ UNCHANGED <<users, projects, tasks, sprints, risks, time_logs, now>>

OnKanban(username) ==
    [is_authenticated |-> TRUE, current_page |-> "Kanban Board",
     username |-> username, user_role |-> users[UserByName(users, username)].role,
     user_id |-> UserByName(users, username), show_task_form |-> FALSE,
     db_manager |-> [t \in DOMAIN tasks |-> tasks[t].status]]

InitTwoSessions ==
    /\ now = 0
    /\ LET d == _seed_initial_data(EmptyDb) IN
         /\ users = d.users
         /\ projects = d.projects
         /\ tasks = d.tasks
         /\ sprints = d.sprints
         /\ risks = d.risks
         /\ time_logs = d.time_logs
    /\ session_state = OnKanban("manager")
    /\ peer = OnKanban("member")
    /\ last = [op |-> "main_app", arg |-> <<>>, calls |-> <<>>, ret |-> TRUE,
               msg |-> ""]
    /\ view = [name |-> "Kanban Board"]

NextTwoSessions ==
    \/ SwitchSession
    \/ \E t \in TwoSessionTasks, st \in TaskStatuses : MoveAndLog(t, st, 0, FALSE, FALSE)

SpecTwoSessions == InitTwoSessions /\ [][NextTwoSessions]_vars


\* The life of the rows: a user registers, the manager adds a project and,
\* to the first project, a task, a sprint and a risk, logs time on the first
\* task, deletes projects, and logs out and in again.
FirstTask == Min(DOMAIN tasks)

NextLifecycle ==
    \/ RegisterAs(AdminForms, FALSE)
    \/ LoginAs({<<"manager", "managerpass">>})
    \/ Logout
    \/ NavigateStep({"Project Management", "Kanban Board", "Sprint Management",
                     "Risk Register"})
    \/ (NothingDeleted /\ CreateProject("title", FALSE))
    \/ (NothingDeleted /\ OpenTaskForm)
    \/ (NothingDeleted /\ CreateTask(FirstProject, "title", None, None, FALSE))
    \/ (NothingDeleted /\ CreateSprint(FirstProject, FALSE))
    \/ (NothingDeleted /\ CreateRisk(FirstProject, "title", FALSE))
    \/ (NothingDeleted /\ MoveAndLog(FirstTask, tasks[FirstTask].status, 5, FALSE, FALSE))
    \/ DeleteProjectStep(FALSE)

SpecLifecycle == Init /\ [][NextLifecycle]_vars


\* The dependency references of the tasks: the manager creates backlog
\* tasks with any dependency the form offers, in either project, also after
\* projects were deleted and ids are given again; moves tasks to Done, which
\* takes them out of the dependencies offered; deletes projects; and logs
\* out and in again.
NextTasks ==
    \/ LoginAs({<<"manager", "managerpass">>})
    \/ Logout
    \/ NavigateStep({"Kanban Board", "Project Management"})
    \/ OpenTaskForm
    \/ \E p \in DOMAIN projects, dep \in 0..(MaxTasks + 1) :
          CreateTask(p, "title", dep, None, FALSE)
    \/ \E t \in DOMAIN tasks : MoveAndLog(t, "Done", 0, FALSE, FALSE)
    \/ DeleteProjectStep(FALSE)

SpecTasks == Init /\ [][NextTasks]_vars


\* The sprint references of the tasks: the manager creates sprints,
\* creates tasks in the backlog or in any sprint the form offers, moves
\* backlog tasks to sprints, deletes projects, and logs out and in again.
NextSprints ==
    \/ LoginAs({<<"manager", "managerpass">>})
    \/ Logout
    \/ NavigateStep({"Kanban Board", "Project Management", "Sprint Management",
                     "Reports & Analytics"})
    \/ OpenTaskForm
    \/ \E p \in DOMAIN projects, sp \in 0..(MaxSprints + 1) :
          CreateTask(p, "title", None, sp, FALSE)
    \/ CreateSprintStep(FALSE)
    \/ MoveToSprintStep(FALSE)
    \/ DeleteProjectStep(FALSE)

SpecSprints == Init /\ [][NextSprints]_vars


\* A Viewer's session: the admin makes the member, or itself, a Viewer on
\* the Administration page; the admin and the member log in and out, go to
\* the pages that write the store, move tasks to Done with or without hours,
\* and move backlog tasks to sprints.
NextViewer ==
    \/ LoginAs({<<"admin", "adminpass">>, <<"member", "memberpass">>})
    \/ Logout
    \/ NavigateStep({"Administration", "Project Management", "Kanban Board",
                     "Sprint Management"})
    \/ \E u \in DOMAIN users :
          /\ users[u].username \in {"admin", "member"}
          /\ UpdateRole(u, "Viewer", FALSE)
    \/ \E t \in DOMAIN tasks, h \in LogHours : MoveAndLog(t, "Done", h, FALSE, FALSE)
    \/ MoveToSprintStep(FALSE)

SpecViewer == Init /\ [][NextViewer]_vars


---------------------------------------------------------------------------
(* Properties *)

UsersNamed(us, name) == {i \in DOMAIN us : us[i].username = name}
UsersWithEmail(us, email) == {i \in DOMAIN us : us[i].email = email}

UniqueUsers ==
    \A i, j \in DOMAIN users :
        (users[i].username = users[j].username \/ users[i].email = users[j].email) => i = j

\* What a registration that passed the form's own checks does: it returns
\* True exactly when neither the username nor the email is in the store;
\* then the store has one more user, the only one with that username and the
\* only one with that email; otherwise the store is as before and still has
\* exactly one user with the username (email) that was taken.
RegisterContract ==
    (last'.op = "register" /\ last'.msg \notin {"All fields are required.",
                                                "Passwords do not match."})
    => LET u == last'.arg[1]
           e == last'.arg[2]
           taken == UsersNamed(users, u) # {} \/ UsersWithEmail(users, e) # {}
       IN /\ last'.ret <=> ~taken
          /\ last'.ret =>
                /\ Cardinality(DOMAIN users') = Cardinality(DOMAIN users) + 1
                /\ \A i \in DOMAIN users : i \in DOMAIN users' /\ users'[i] = users[i]
          /\ ~last'.ret =>
                /\ users' = users
                /\ last'.msg = "Username or Email already exists."
          /\ (last'.ret \/ UsersNamed(users, u) # {})
                => Cardinality(UsersNamed(users', u)) = 1
          /\ (last'.ret \/ UsersWithEmail(users, e) # {})
                => Cardinality(UsersWithEmail(users', e)) = 1

\* C1: a create of a User whose username or email is already stored returns
\* False and leaves the store as it was, a create with a fresh username and
\* email returns True, after either the store holds exactly one User with that
\* username and one with that email, and username and email are unique in
\* every reachable state.
C1_UniqueUsernameEmail == []UniqueUsers /\ [][RegisterContract]_vars

\* C1 witness: "alice" was registered and a second registration of "alice"
\* (with another email) has just been refused.
C1_Witness ==
    /\ last.op = "register"
    /\ last.arg = <<"alice", "bob@x.org">>
    /\ ~last.ret
    /\ Cardinality(UsersNamed(users, "alice")) = 1
    /\ UsersWithEmail(users, "bob@x.org") = {}

\* Every Task, Sprint and Risk belongs to a stored Project and every TimeLog
\* to a stored Task.
NoOrphans ==
    /\ \A t \in DOMAIN tasks : tasks[t].project_id \in DOMAIN projects
    /\ \A sp \in DOMAIN sprints : sprints[sp].project_id \in DOMAIN projects
    /\ \A r \in DOMAIN risks : risks[r].project_id \in DOMAIN projects
    /\ \A l \in DOMAIN time_logs : time_logs[l].task_id \in DOMAIN tasks

\* The rows of the table whose field f is in the set ids.
RowsWith(table, f, ids) == {i \in DOMAIN table : table[i][f] \in ids}

\* What a successful delete of Project p does in its one step.
DeleteContract ==
    (last'.op = "delete_project" /\ last'.ret)
        => LET p == last'.arg[1]
               N == RowsWith(tasks, "project_id", {p})
               M == RowsWith(sprints, "project_id", {p})
               K == RowsWith(risks, "project_id", {p})
               L == RowsWith(time_logs, "task_id", N)
           IN /\ p \in DOMAIN projects
              /\ DOMAIN projects' = DOMAIN projects \ {p}
              /\ DOMAIN tasks' = DOMAIN tasks \ N
              /\ DOMAIN sprints' = DOMAIN sprints \ M
              /\ DOMAIN risks' = DOMAIN risks \ K
              /\ DOMAIN time_logs' = DOMAIN time_logs \ L
              /\ Cardinality(DOMAIN tasks) + Cardinality(DOMAIN sprints)
                   + Cardinality(DOMAIN risks)
                 = Cardinality(DOMAIN tasks') + Cardinality(DOMAIN sprints')
                   + Cardinality(DOMAIN risks')
                   + Cardinality(N) + Cardinality(M) + Cardinality(K)
              /\ RowsWith(tasks', "project_id", {p}) = {}
              /\ RowsWith(sprints', "project_id", {p}) = {}
              /\ RowsWith(risks', "project_id", {p}) = {}
              /\ RowsWith(time_logs', "task_id", N) = {}

\* C2: a successful delete of a Project with N Tasks, M Sprints and K Risks
\* removes, in the one step, the Project, the N+M+K rows and every TimeLog of
\* the N Tasks; afterwards no Task, Sprint or Risk references the Project and
\* no TimeLog a removed Task; and in no reachable state does a Task, Sprint
\* or Risk reference a missing Project or a TimeLog a missing Task.
C2_DeleteCascades == []NoOrphans /\ [][DeleteContract]_vars

\* C2 witness: project 1 (with its seeded tasks 1 and 2, sprint 1, risk 1 and
\* the TimeLog of task 2) has just been deleted, and project 2 keeps its task
\* and a risk added to it.
C2_Witness ==
    /\ last.op = "delete_project"
    /\ last.arg = <<1>>
    /\ last.ret
    /\ DOMAIN projects = {2}
    /\ DOMAIN tasks = {3}
    /\ DOMAIN sprints = {}
    /\ DOMAIN time_logs = {}
    /\ \E r \in DOMAIN risks : risks[r].project_id = 2

\* C3: Move & Log on a Task with prior logged hours H, with any of the four
\* statuses s and hours h > 0, ends with the Task's logged hours H + h and
\* its stored status s.
C3_MoveAndLog ==
    [][\A t \in DOMAIN tasks :
        (last'.op = "move_and_log" /\ last'.arg[1] = t /\ last'.arg[3] > 0)
            => LET s == last'.arg[2]
                   h == last'.arg[3]
                   H == get_total_logged_hours(t)
               IN /\ s \in TaskStatuses
                  /\ t \in DOMAIN tasks'
                  /\ get_total_logged_hours(t)' = H + h
                  /\ tasks'[t].status = s]_vars

\* C3 witness: the spec's case, advance(task, "Done", 2.5, user), on task 2
\* whose prior logged hours were 4.5: the hours are 7.0 and the status Done.
C3_Witness ==
    /\ last.op = "move_and_log"
    /\ last.arg = <<2, "Done", 5>>
    /\ last.ret
    /\ get_total_logged_hours(2) = 14
    /\ tasks[2].status = "Done"

\* gantt_page is shown for project p.
GanttShows(p) ==
    /\ view.name = "Gantt & WBS"
    /\ "project" \in DOMAIN view
    /\ view.project = p

\* The tasks of project p.
TasksOf(p) == {t \in DOMAIN tasks : tasks[t].project_id = p}

\* No task of the set is on a cycle of dependency references: no nonempty
\* subset has every member depending on a member.
Acyclic(P) ==
    \A S \in SUBSET P :
        S # {} => \E t \in S : tasks[t].dependency_task_id \notin S

\* C4: for a project of three Tasks in a chain (B depends on A, C on B, A on
\* nothing) the WBS is one root A with B below it at level 1 and C below B at
\* level 2; and for every acyclic project every Task is rendered, a Task
\* with a dependency right below the Task it depends on.
C4_ChainRendersNested ==
    \A p \in DOMAIN projects :
        GanttShows(p) =>
          /\ \A A, B, C \in TasksOf(p) :
                ( /\ TasksOf(p) = {A, B, C}
                  /\ Cardinality({A, B, C}) = 3
                  /\ tasks[A].dependency_task_id = None
                  /\ tasks[B].dependency_task_id = A
                  /\ tasks[C].dependency_task_id = B )
                => /\ view.wbs.kind = "tree"
                   /\ view.wbs.nodes = << [task |-> A, level |-> 0],
                                          [task |-> B, level |-> 1],
                                          [task |-> C, level |-> 2] >>
          /\ Acyclic(TasksOf(p)) =>
               \A t \in TasksOf(p) :
                  \E i \in DOMAIN view.wbs.nodes :
                     /\ view.wbs.nodes[i].task = t
                     /\ tasks[t].dependency_task_id \in TasksOf(p) =>
                          \E j \in 1..(i - 1) :
                             /\ view.wbs.nodes[j].task = tasks[t].dependency_task_id
                             /\ view.wbs.nodes[i].level = view.wbs.nodes[j].level + 1

\* C5: for a project whose Tasks' dependency references form a cycle (A
\* depends on C, C on B, B on A) the WBS builder reports CyclicDependency.
C5_CycleReported ==
    \A p \in DOMAIN projects :
        GanttShows(p) =>
          \A A, B, C \in TasksOf(p) :
             ( /\ Cardinality({A, B, C}) = 3
               /\ tasks[A].dependency_task_id = C
               /\ tasks[C].dependency_task_id = B
               /\ tasks[B].dependency_task_id = A )
             => view.wbs.kind = "CyclicDependency"

\* The sum of v times the number of the given TimeLogs whose hours are v,
\* over the values v.
RECURSIVE HoursByValue(_, _)
HoursByValue(vals, mine) ==
    IF vals = {} THEN 0
    ELSE LET v == Max(vals)
         IN v * Cardinality({l \in mine : time_logs[l].hours = v})
              + HoursByValue(vals \ {v}, mine)

\* The TimeLogs whose task reference is task_id.
LogsOf(task_id) == {l \in DOMAIN time_logs : time_logs[l].task_id = task_id}

\* C6: in every state, after any Move & Log operations and project
\* deletions, get_total_logged_hours(task) is the sum of the hours of
\* exactly the stored TimeLogs whose task reference is that Task, and 0 for
\* a Task (stored or not) with no TimeLog.
C6_TotalLoggedHours ==
    \A t \in DOMAIN tasks \cup {NewId(tasks)} :
        /\ get_total_logged_hours(t)
             = HoursByValue({time_logs[l].hours : l \in LogsOf(t)}, LogsOf(t))
        /\ LogsOf(t) = {} => get_total_logged_hours(t) = 0

\* C6 witness: after Move & Log operations and the deletion of project 1,
\* task 3 has two TimeLogs of 2.5 hours, a total of 5.0, and no other
\* TimeLog is left.
C6_Witness ==
    /\ DOMAIN projects = {2}
    /\ Cardinality(LogsOf(3)) = 2
    /\ get_total_logged_hours(3) = 10
    /\ DOMAIN time_logs = LogsOf(3)

\* The Repository calls of a step all failed.
AllFailed(calls) ==
    calls # <<>> /\ \A i \in DOMAIN calls : calls[i].error # "none"

\* What a step whose Repository calls fail returns and leaves in the store.
FailureContract ==
    LET calls == last'.calls IN
    /\ \A i \in DOMAIN calls :
          /\ calls[i].fn \in {"create", "update", "delete"}
          /\ calls[i].error \in {"none", "IntegrityError", "Exception"}
          /\ calls[i].error # "none" => calls[i].ret = FALSE
          /\ calls[i].error = "none" => calls[i].ret = TRUE
    /\ AllFailed(calls) => (Db' = Db /\ last'.ret = FALSE)
    /\ (Len(calls) = 2 /\ calls[1].error # "none" /\ calls[2].error = "none")
          => Db' = Db
    /\ (Len(calls) = 2 /\ calls[1].error = "none" /\ calls[2].error # "none")
          => /\ last'.ret = FALSE
             /\ DOMAIN time_logs' = DOMAIN time_logs \cup {NewId(time_logs)}
             /\ \A l \in DOMAIN time_logs : time_logs'[l] = time_logs[l]
             /\ tasks' = [tasks EXCEPT ![last'.arg[1]].status = last'.arg[2]]
             /\ <<users', projects', sprints', risks'>> = <<users, projects, sprints, risks>>

\* C9: a Repository create, update or delete whose commit fails, on a
\* uniqueness violation or on any other storage error, returns False and the
\* handler goes on (nothing is raised); the store after the failed call is
\* the store before it: a step whose calls all fail leaves the store as it
\* was, and in Move & Log a failed create leaves nothing for the update to
\* write and a failed update leaves exactly what the create committed.
C9_FailedCallRollsBack == [][FailureContract]_vars

\* C9 witness: the delete of project 1 has just failed on a storage error, it
\* returned False, and the project, its tasks, sprint, risk and TimeLog are
\* all still stored.
C9_Witness ==
    /\ last.op = "delete_project"
    /\ last.arg = <<1>>
    /\ last.calls = <<[fn |-> "delete", error |-> "Exception", ret |-> FALSE]>>
    /\ ~last.ret
    /\ Db = _seed_initial_data(EmptyDb)

\* The login the last step made failed to match a user and a password.
StoredHashMatches(username, password) ==
    \E i \in DOMAIN users :
        users[i].username = username /\ users[i].password_hash = hash_password(password)

\* C7: a login with an existing username and a wrong password and a login
\* with an unknown username have the same outward result: False, the same
\* error message, the login page again, and no field of the session and no
\* row of the store changed.
C7_NoEnumerationSignal ==
    [][(last'.op = "login" /\ ~StoredHashMatches(last'.arg[1], last'.arg[2]))
        => /\ last'.ret = FALSE
           /\ last'.msg = "Invalid username or password."
           /\ view' = [name |-> "login_page"]
           /\ session_state' = session_state
           /\ Db' = Db]_vars

\* C7 witness: both cases happened from the same state of the store: the
\* last login named the existing user "admin" with a wrong password and was
\* refused exactly as a login of the unknown "ghost" is.
C7_Witness ==
    /\ last.op = "login"
    /\ last.arg = <<"admin", "pw1">>
    /\ UsersNamed(users, "admin") # {}
    /\ UsersNamed(users, "ghost") = {}
    /\ ~last.ret
    /\ ~session_state.is_authenticated

\* C8: authenticate returns True exactly when a User with the username is
\* stored and the hash of the password equals its stored hash; the session
\* then carries that User's id, username and role, is authenticated and is
\* on the Dashboard; in every other case it returns False.
C8_AuthenticateExactly ==
    [][last'.op = "login"
        => LET u == last'.arg[1]
               p == last'.arg[2]
           IN /\ last'.ret <=> StoredHashMatches(u, p)
              /\ last'.ret =>
                   \E i \in DOMAIN users :
                      /\ users[i].username = u
                      /\ session_state'.is_authenticated = TRUE
                      /\ session_state'.user_id = i
                      /\ session_state'.username = u
                      /\ session_state'.user_role = users[i].role
                      /\ session_state'.current_page = "Dashboard"]_vars

\* C8 witness: a user registered as "alice" with "pw2" is logged in.
C8_Witness ==
    /\ last.op = "login"
    /\ last.arg = <<"alice", "pw2">>
    /\ last.ret
    /\ session_state.is_authenticated
    /\ session_state.username = "alice"
    /\ session_state.user_id \notin {1, 2, 3}


\* The ISO week of a TimeLog: the number of whole weeks from the Monday
\* of day 0 to its log date.
ISOWeek(l) == (time_logs[l].log_date \div 2) \div 7

\* The buckets of the rollup that the TimeLog falls in: its user's, of a
\* week that holds its date.
BucketsOf(ws, l) ==
    {k \in DOMAIN ws : /\ k[1] = users[time_logs[l].user_id].username
                       /\ k[2][1] <= Date(l)
                       /\ Date(l) <= k[2][2]}

\* C10: the weekly rollup has one bucket per (user, ISO week): every bucket
\* is a week from a Monday to its Sunday, every TimeLog falls in exactly one
\* bucket, two TimeLogs share a bucket exactly when they are of the same
\* user and the same ISO week (so a TimeLog of the following week and a
\* TimeLog of another user are in other buckets), and the value of a bucket
\* is the sum of the hours of the TimeLogs in it.
C10_WeeklyRollup ==
    (view.name = "Reports & Analytics" /\ DOMAIN time_logs # {})
      => LET ws == view.weekly_summary IN
         /\ \A k \in DOMAIN ws : k[2][1] % 7 = 0 /\ k[2][2] = k[2][1] + 6
         /\ \A l \in DOMAIN time_logs : Cardinality(BucketsOf(ws, l)) = 1
         /\ \A l1, l2 \in DOMAIN time_logs :
               (BucketsOf(ws, l1) = BucketsOf(ws, l2))
                 <=> /\ time_logs[l1].user_id = time_logs[l2].user_id
                     /\ ISOWeek(l1) = ISOWeek(l2)
         /\ \A k \in DOMAIN ws :
               LET mine == {l \in DOMAIN time_logs : BucketsOf(ws, l) = {k}}
               IN /\ mine # {}
                  /\ ws[k] = HoursByValue({time_logs[l].hours : l \in mine}, mine)

\* C10 witness: admin logged 2.5 h on the Monday and 4.5 h on the Sunday of
\* the first week and 2.5 h on the Monday of the second: the rollup has a
\* bucket of 7.0 h for the first week and one of 2.5 h for the second.
C10_Witness ==
    /\ view.name = "Reports & Analytics"
    /\ Cardinality(DOMAIN time_logs) = 3
    /\ \A l \in DOMAIN time_logs : time_logs[l].user_id = 1
    /\ {time_logs[l].log_date : l \in DOMAIN time_logs} = {1, 13, 14}
    /\ DOMAIN view.weekly_summary = {<<"admin", <<0, 6>>>>, <<"admin", <<7, 13>>>>}
    /\ view.weekly_summary[<<"admin", <<0, 6>>>>] = 14
    /\ view.weekly_summary[<<"admin", <<7, 13>>>>] = 5

\* The handlers that create, update or delete a Project, create a Task,
\* create a Sprint, create or update a Risk.
ManagedOps == {"create_project", "update_project", "delete_project", "create_task",
               "create_sprint", "create_risk", "update_risk"}

\* A step of a session: what it may do to projects, tasks, sprints and
\* risks given the role of the session that takes it.
RoleContract ==
    /\ last'.op \in ManagedOps
          => /\ session_state.is_authenticated
             /\ session_state.user_role \in {"Admin", "Project Manager"}
    /\ (session_state.is_authenticated
          /\ session_state.user_role \in {"Team Member", "Viewer"})
          => /\ last'.op \notin ManagedOps
             /\ last'.op # "logout"
                  => /\ projects' = projects
                     /\ sprints' = sprints
                     /\ risks' = risks
                     /\ DOMAIN tasks' = DOMAIN tasks
    /\ last'.op \notin ManagedOps
          => \/ /\ projects' = projects
                /\ sprints' = sprints
                /\ risks' = risks
                /\ DOMAIN tasks' = DOMAIN tasks
             \/ /\ last'.op = "logout"
                /\ DOMAIN projects = {}
                /\ Db' = _seed_initial_data(Db)

\* C11: every creation, update or deletion of a Project, creation of a Task,
\* creation of a Sprint and creation or update of a Risk by a form is a step
\* of a session whose role is Admin or Project Manager; a session whose role
\* is Team Member or Viewer takes no such step and leaves the projects,
\* sprints, risks and the set of tasks as they are.  (Apart from the forms,
\* such rows appear only when a new DatabaseManager seeds an empty store.)
C11_ManagedByManagers == [][RoleContract]_vars

\* C11 witness: a Viewer session is on the Sprint Management page of a store
\* that holds a sprint a manager created.
C11_Witness ==
    /\ session_state.is_authenticated
    /\ session_state.user_role = "Viewer"
    /\ session_state.current_page = "Sprint Management"
    /\ Cardinality(DOMAIN sprints) = 2


---------------------------------------------------------------------------
\* C12: a stored User's role changes only in an "Update Role" step of an
\* authenticated session whose session role is Admin; the sidebar routes to
\* the Administration page only in such a session; and a rerun of the
\* Administration page in a session of any other role shows "Access Denied"
\* and leaves every table as it was.
RoleOf(u) == users[u].role

AccessDenied == "Access Denied. Only Administrators can view this page."

AdminOnly ==
    /\ (\E u \in DOMAIN users : u \in DOMAIN users' /\ RoleOf(u)' # RoleOf(u))
          => /\ session_state.is_authenticated
             /\ session_state.user_role = "Admin"
             /\ last'.op = "update_role"
    /\ (last'.op = "navigate" /\ last'.arg = <<"Administration">>)
          => session_state.user_role = "Admin"
    /\ (last'.op = "administration_page" /\ session_state.user_role # "Admin")
          => /\ "error" \in DOMAIN view'
             /\ view'.error = AccessDenied
             /\ last'.msg = AccessDenied
             /\ UNCHANGED <<users, projects, tasks, sprints, risks, time_logs>>

C12_AdminOnly == [][AdminOnly]_vars

\* A Project Manager session routed to the Administration page has been
\* refused.
C12_Witness ==
    /\ session_state.is_authenticated
    /\ session_state.user_role = "Project Manager"
    /\ session_state.current_page = "Administration"
    /\ last.op = "administration_page"
    /\ "error" \in DOMAIN view
    /\ view.error = AccessDenied


---------------------------------------------------------------------------
\* C13: every User created by the registration form has the role Team Member
\* or Project Manager, and a User comes to hold the role Admin only by an
\* "Update Role" of an Admin session or as the account 'admin' that seeding
\* adds to a store without one.
SeedsAdmin(u) ==
    /\ UserByName(users, "admin") = None
    /\ users'[u].username = "admin"
    /\ users' = SeedUsersInto(users)

RegistrationRoles ==
    /\ last'.op = "register"
          => \A u \in DOMAIN users' \ DOMAIN users :
                users'[u].role \in {"Team Member", "Project Manager"}
    /\ \A u \in DOMAIN users' :
          (users'[u].role = "Admin" /\ (u \in DOMAIN users => users[u].role # "Admin"))
             => \/ /\ last'.op = "update_role"
                   /\ last'.arg = <<u, "Admin">>
                   /\ session_state.is_authenticated
                   /\ session_state.user_role = "Admin"
                \/ SeedsAdmin(u)

C13_RegistrationRoles == [][RegistrationRoles]_vars

\* alice has just registered, as a Project Manager.
C13_Witness ==
    /\ last.op = "register"
    /\ last.ret
    /\ \E u \in DOMAIN users : /\ users[u].username = "alice"
                               /\ users[u].role = "Project Manager"


---------------------------------------------------------------------------
\* C14: a Move & Log with hours_to_log > 0 always calls create for the new
\* TimeLog before it calls update for the task, whatever the status chosen;
\* and when that create succeeded and the update then returned False, the
\* handler reports "Failed to update task." while the store holds the new
\* TimeLog: the time_logs table is the one before plus exactly that row.
LogOutlivesFailedUpdate ==
    (last'.op = "move_and_log" /\ last'.arg[3] > 0)
       => /\ Len(last'.calls) = 2
          /\ last'.calls[1].fn = "create"
          /\ last'.calls[2].fn = "update"
          /\ (last'.calls[1].ret /\ ~last'.calls[2].ret)
                => /\ ~last'.ret
                   /\ last'.msg = "Failed to update task."
                   /\ time_logs' = Insert(time_logs, NewId(time_logs),
                                          new_log(last'.arg[1], last'.arg[3]))

C14_LogOutlivesFailedUpdate == [][LogOutlivesFailedUpdate]_vars

\* 2.5 h were logged on a task whose update then failed: the handler reported
\* the failure and the TimeLog is stored beside the seeded one.
C14_Witness ==
    /\ last.op = "move_and_log"
    /\ last.arg[3] = 5
    /\ last.calls = <<[fn |-> "create", error |-> "none", ret |-> TRUE],
                      [fn |-> "update", error |-> "Exception", ret |-> FALSE]>>
    /\ last.msg = "Failed to update task."
    /\ \E l \in DOMAIN time_logs \ DOMAIN _seed_initial_data(EmptyDb).time_logs :
          /\ time_logs[l].task_id = last.arg[1]
          /\ time_logs[l].hours = 5


---------------------------------------------------------------------------
\* C15: the status of every Task is one of the four of KANBAN_STATUSES, and
\* on the Kanban board, in a session that is shown the Move & Log form, every
\* Task can be taken from the status it has to each of the four statuses by
\* one Move & Log.
CanMove(t, new_status) ==
    ENABLED (MoveAndLog(t, new_status, 0, FALSE, FALSE) /\ tasks'[t].status = new_status)

C15_AnyStatusToAny ==
    /\ \A t \in DOMAIN tasks : tasks[t].status \in {"To Do", "In Progress", "In Review", "Done"}
    /\ (OnPage("Kanban Board") /\ session_state.user_role \in KanbanRoles)
          => \A t \in DOMAIN tasks :
                \A new_status \in {"To Do", "In Progress", "In Review", "Done"} :
                   CanMove(t, new_status)

\* The seeded Done task has just been moved back to To Do, after the seeded
\* To Do task went to Done and the In Progress one to In Review.
C15_Witness ==
    /\ last.op = "move_and_log"
    /\ last.arg = <<2, "To Do", 0>>
    /\ last.ret
    /\ {1, 2, 3} \subseteq DOMAIN tasks
    /\ tasks[2].status = "To Do"
    /\ tasks[3].status = "Done"
    /\ tasks[1].status = "In Review"


---------------------------------------------------------------------------
\* The Tasks of project p with no dependency reference that no other Task of
\* the project references.
Roots(p) ==
    {t \in TasksOf(p) :
        /\ tasks[t].dependency_task_id = None
        /\ ~ \E o \in TasksOf(p) \ {t} : tasks[o].dependency_task_id = t}

\* The lines right below line i of a rendering: one level deeper, with no
\* line of i's level or above in between.
ChildrenAt(ns, i) ==
    {j \in DOMAIN ns : /\ j > i
                       /\ ns[j].level = ns[i].level + 1
                       /\ \A k \in (i + 1)..(j - 1) : ns[k].level > ns[i].level}

\* Below every line of a Task are, once each, exactly the Tasks of P whose
\* dependency reference is that Task (down to the depth the interpreter
\* allows).
AttachedDepthFirst(ns, P) ==
    \A i \in DOMAIN ns :
        (ns[i].task # None /\ ns[i].level < RecursionLimit)
           => /\ {ns[j].task : j \in ChildrenAt(ns, i)}
                    = {t \in P : tasks[t].dependency_task_id = ns[i].task}
              /\ Cardinality(ChildrenAt(ns, i))
                    = Cardinality({t \in P : tasks[t].dependency_task_id = ns[i].task})

\* C16: when gantt_page shows a project, the lines at level 0 of its WBS are,
\* once each, exactly the project's Tasks that have no dependency reference
\* and that no other Task of the project references (none are rendered when
\* there is no such Task); below every rendered line are exactly the Tasks
\* whose dependency reference is the line's Task; and render_wbs_node itself,
\* started on any Task of the project, writes that Task and then, depth
\* first, one level deeper, every Task whose dependency reference is the
\* current node.
C16_RootSetAndAttach ==
    \A p \in DOMAIN projects :
        GanttShows(p) =>
          /\ Roots(p) # {} =>
                /\ view.wbs.kind = "tree"
                /\ {view.wbs.nodes[i].task :
                       i \in {k \in DOMAIN view.wbs.nodes : view.wbs.nodes[k].level = 0}}
                      = Roots(p)
                /\ Cardinality({k \in DOMAIN view.wbs.nodes : view.wbs.nodes[k].level = 0})
                      = Cardinality(Roots(p))
                /\ AttachedDepthFirst(view.wbs.nodes, TasksOf(p))
          /\ Roots(p) = {} => view.wbs.nodes = <<>>
          /\ \A t \in TasksOf(p) :
                LET ns == render_wbs_node(project_tasks(p), t, 0)
                IN /\ ns[1] = [task |-> t, level |-> 0]
                   /\ AttachedDepthFirst(ns, TasksOf(p))

\* gantt_page shows a project of three Tasks: one is a root, and of the
\* other two, one has no dependency but is referenced by the third, so
\* neither is a root.
C16_Witness ==
    \E p \in DOMAIN projects :
        /\ GanttShows(p)
        /\ Cardinality(TasksOf(p)) = 3
        /\ Cardinality(Roots(p)) = 1
        /\ \E a, b \in TasksOf(p) \ Roots(p) :
              /\ tasks[a].dependency_task_id = None
              /\ tasks[b].dependency_task_id = a
        /\ Len(view.wbs.nodes) = 1


---------------------------------------------------------------------------
\* The task reached from t by following k dependency references, None when
\* the chain ends or leaves the stored tasks before that.
RECURSIVE DependencyAt(_, _)
DependencyAt(t, k) ==
    IF k = 0 THEN t
    ELSE IF t \notin DOMAIN tasks THEN None
    ELSE DependencyAt(tasks[t].dependency_task_id, k - 1)

\* t is on a cycle of dependency references.
OnCycle(t) == \E k \in 1..Cardinality(DOMAIN tasks) : DependencyAt(t, k) = t

\* C17 as stated: whenever gantt_page shows a project whose Tasks'
\* dependency references contain a cycle, the walk recursed past every depth
\* the interpreter allows and the rendering did not complete.
C17_CycleRecursesWithoutBound ==
    \A p \in DOMAIN projects :
        (GanttShows(p) /\ \E t \in TasksOf(p) : OnCycle(t))
           => view.wbs.kind = "RecursionError"

\* C17, amended: the walk does not detect cycles, and whenever gantt_page
\* shows a project whose Tasks' dependency references contain a cycle, the
\* rendering completes without entering the cycle: no Task on a cycle is
\* rendered, no line is deeper than the interpreter allows, no cycle is
\* reported, and a project left without roots gets the generic warning.
C17_CycleNeverWalked ==
    \A p \in DOMAIN projects :
        (GanttShows(p) /\ \E t \in TasksOf(p) : OnCycle(t))
           => /\ view.wbs.kind \in {"tree", "warning"}
              /\ \A i \in DOMAIN view.wbs.nodes :
                    /\ view.wbs.nodes[i].task \in TasksOf(p)
                    /\ ~OnCycle(view.wbs.nodes[i].task)
                    /\ view.wbs.nodes[i].level <= RecursionLimit
              /\ Roots(p) = {} =>
                    /\ view.wbs.kind = "warning"
                    /\ view.wbs.msg = "No clear top-level tasks or dependencies found. All tasks might be independent."

\* gantt_page shows a project of a root and two Tasks that depend on each
\* other: the root alone is rendered.
C17_Witness ==
    \E p \in DOMAIN projects :
        /\ GanttShows(p)
        /\ Cardinality(TasksOf(p)) = 3
        /\ Cardinality({t \in TasksOf(p) : OnCycle(t)}) = 2
        /\ view.wbs.kind = "tree"
        /\ Len(view.wbs.nodes) = 1


---------------------------------------------------------------------------
\* C18: with two sessions on the Kanban board, every Move & Log returns True
\* and reports success, and one made on a Task object that is out of date
\* (the other session committed a status after this session loaded the Task)
\* and that changes the status as the session sees it, still commits: the
\* store then holds this session's status, not the other's, nothing is
\* shown but the success, and the other session is left as it was.
LastWriteWins ==
    \A t \in DOMAIN tasks :
        (last'.op = "move_and_log" /\ last'.arg[1] = t /\ peer.is_authenticated)
           => /\ last'.ret
              /\ last'.msg = "moved and logged"
              /\ peer' = peer
              /\ (loaded_status(t) # tasks[t].status /\ last'.arg[2] # loaded_status(t))
                    => /\ last'.calls = <<[fn |-> "update", error |-> "none", ret |-> TRUE]>>
                       /\ tasks'[t].status = last'.arg[2]

C18_LastWriteWins == [][LastWriteWins]_vars

\* A lost update: the member moved task 3 from To Do to In Progress and still
\* sees it there; the manager, whose object of task 3 still said To Do, then
\* moved it to Done; both got True, and the store says Done.
C18_Witness ==
    /\ last.op = "move_and_log"
    /\ last.arg = <<3, "Done", 0>>
    /\ last.ret
    /\ last.task_status = "To Do"
    /\ last.stored_status = "In Progress"
    /\ session_state.username = "manager"
    /\ peer.username = "member"
    /\ peer.db_manager[3] = "In Progress"
    /\ tasks[3].status = "Done"


---------------------------------------------------------------------------
\* The usernames of the default accounts.
SeededUsernames == {"admin", "manager", "member"}

\* C19: in every state, after the first boot and after every later
\* DatabaseManager initialisation (the one a logout brings about included),
\* the store holds exactly one User for each of the usernames admin, manager
\* and member, and one more initialisation would add no User.
C19_SeedingIdempotent ==
    /\ \A name \in SeededUsernames :
          Cardinality({u \in DOMAIN users : users[u].username = name}) = 1
    /\ SeedUsersInto(users) = users
    /\ _seed_initial_data(Db).users = users

\* A DatabaseManager has just been initialised again, after a logout, on a
\* store that by then also held a registered user.
C19_Witness ==
    /\ last.op = "logout"
    /\ Cardinality(DOMAIN users) > Cardinality(SeededUsernames)
    /\ \A name \in SeededUsernames :
          Cardinality({u \in DOMAIN users : users[u].username = name}) = 1


---------------------------------------------------------------------------
\* The rows of a table that a step removes.
Removed(table, table_after) == DOMAIN table \ DOMAIN table_after

\* C20: no step removes a User; a step that removes a Task, Sprint, Risk or
\* TimeLog is a successful delete of a Project, and every row it removes is
\* a Task, Sprint or Risk of that Project or a TimeLog of one of its Tasks;
\* every other step leaves each of the five sets as large as it was or
\* larger, with every row it had.
OnlyProjectsDeleted ==
    /\ Removed(users, users') = {}
    /\ (last'.op = "delete_project" /\ last'.ret)
          => LET p == last'.arg[1] IN
             /\ p \in Removed(projects, projects')
             /\ Removed(tasks, tasks') \subseteq RowsWith(tasks, "project_id", {p})
             /\ Removed(sprints, sprints') \subseteq RowsWith(sprints, "project_id", {p})
             /\ Removed(risks, risks') \subseteq RowsWith(risks, "project_id", {p})
             /\ Removed(time_logs, time_logs')
                   \subseteq RowsWith(time_logs, "task_id", RowsWith(tasks, "project_id", {p}))
    /\ ~(last'.op = "delete_project" /\ last'.ret)
          => /\ Removed(projects, projects') = {}
             /\ Removed(tasks, tasks') = {}
             /\ Removed(sprints, sprints') = {}
             /\ Removed(risks, risks') = {}
             /\ Removed(time_logs, time_logs') = {}

C20_OnlyProjectsDeleted == [][OnlyProjectsDeleted]_vars

\* Project 2 has just been deleted and its task went with it, while the
\* rows added to project 1, a task, a sprint, a risk and a TimeLog, and the
\* registered user are all still stored.
C20_Witness ==
    /\ last.op = "delete_project"
    /\ last.arg = <<2>>
    /\ last.ret
    /\ 3 \notin DOMAIN tasks
    /\ Cardinality(RowsWith(tasks, "project_id", {1})) = 3
    /\ Cardinality(DOMAIN sprints) = 2
    /\ Cardinality(DOMAIN risks) = 2
    /\ Cardinality(DOMAIN time_logs) = 2
    /\ Cardinality(DOMAIN users) = 4


---------------------------------------------------------------------------
\* A Move & Log with no hours entered adds no TimeLog and, when its update
\* went through, leaves the Task with the status chosen.
ZeroHoursAddsNoLog ==
    \A t \in DOMAIN tasks :
        (last'.op = "move_and_log" /\ last'.arg[1] = t /\ last'.arg[3] = 0)
           => /\ time_logs' = time_logs
              /\ \A i \in DOMAIN last'.calls : last'.calls[i].fn # "create"
              /\ last'.ret => tasks'[t].status = last'.arg[2]

\* A Move & Log adds at most one TimeLog, and that one carries the hours
\* entered, which are more than 0.
LogsOnlyPositive ==
    last'.op = "move_and_log"
       => \A l \in DOMAIN time_logs' \ DOMAIN time_logs :
             /\ time_logs'[l].hours = last'.arg[3]
             /\ last'.arg[3] > 0

\* C21: in every reachable state every stored TimeLog has hours > 0; a Move
\* & Log creates a TimeLog only when hours_to_log > 0, and with hours_to_log
\* = 0 it changes the status and adds no TimeLog; the seeded log is positive.
C21_PositiveHours ==
    /\ [](\A l \in DOMAIN time_logs : time_logs[l].hours > 0)
    /\ [][ZeroHoursAddsNoLog /\ LogsOnlyPositive]_vars

\* Task 1 has just been moved to Done with no hours entered, after 2.5 h had
\* been logged: the store holds the seeded log and the one of 2.5 h.
C21_Witness ==
    /\ last.op = "move_and_log"
    /\ last.arg = <<1, "Done", 0>>
    /\ last.ret
    /\ 1 \in DOMAIN tasks
    /\ tasks[1].status = "Done"
    /\ Cardinality(DOMAIN time_logs) = 2
    /\ \A l \in DOMAIN time_logs : time_logs[l].hours \in {5, 9}


---------------------------------------------------------------------------
\* A step sets a dependency reference only on a Task it adds, to a Task
\* stored before the step (the seed: to a Task it adds as well), never to
\* the Task itself, and changes the reference of no Task that stays.
DependencySetOnce ==
    /\ \A t \in DOMAIN tasks' \ DOMAIN tasks :
          LET dep == tasks'[t].dependency_task_id IN
          dep # None =>
             /\ dep # t
             /\ IF last'.op = "logout" THEN dep \in DOMAIN tasks'
                ELSE last'.op = "create_task" /\ dep \in DOMAIN tasks
    /\ \A t \in DOMAIN tasks :
          t \in DOMAIN tasks'
             => tasks'[t].dependency_task_id = tasks[t].dependency_task_id

\* C22: in every reachable state no Task is on a cycle of dependency
\* references and none refers to itself; a reference is set only when its
\* Task is created or seeded, to a Task that exists, and is never modified.
C22_DependenciesAcyclic ==
    /\ [](\A t \in DOMAIN tasks : ~OnCycle(t) /\ tasks[t].dependency_task_id # t)
    /\ [][DependencySetOnce]_vars

\* After project 2 was deleted, ids were given again: task 3 is a new task
\* of project 1, it depends on task 1, which depends on task 2, and a fourth
\* task depends on task 3.
C22_Witness ==
    /\ DOMAIN projects = {1}
    /\ DOMAIN tasks = {1, 2, 3, 4}
    /\ tasks[3].project_id = 1
    /\ tasks[3].dependency_task_id = 1
    /\ tasks[4].dependency_task_id = 3
    /\ tasks[1].dependency_task_id = 2


---------------------------------------------------------------------------
\* C23: in every reachable state a Task with a dependency reference refers
\* to a stored Task of its own Project; and a delete of a Project removes
\* every Task that referred to one of its Tasks and every Task one of its
\* Tasks referred to, so that no reference is left dangling.
C23_DependencyInProject ==
    /\ [](\A t \in DOMAIN tasks :
             tasks[t].dependency_task_id # None
                => /\ tasks[t].dependency_task_id \in DOMAIN tasks
                   /\ tasks[tasks[t].dependency_task_id].project_id = tasks[t].project_id)
    /\ [][(last'.op = "delete_project" /\ last'.ret)
             => \A t \in DOMAIN tasks :
                   tasks[t].dependency_task_id # None
                      => (t \in DOMAIN tasks' <=> tasks[t].dependency_task_id \in DOMAIN tasks')]_vars

\* Project 1 has just been deleted with its dependency link from task 1 to
\* task 2, while a task created in project 2 still depends on task 3.
C23_Witness ==
    /\ last.op = "delete_project"
    /\ last.arg = <<1>>
    /\ last.ret
    /\ DOMAIN projects = {2}
    /\ \E t \in DOMAIN tasks :
          /\ tasks[t].dependency_task_id = 3
          /\ tasks[t].project_id = 2
          /\ tasks[3].project_id = 2


---------------------------------------------------------------------------
\* C24: in every reachable state a Task with a sprint reference refers to a
\* stored Sprint of the Task's own Project.
C24_SprintInProject ==
    \A t \in DOMAIN tasks :
        tasks[t].sprint_id # None
           => /\ tasks[t].sprint_id \in DOMAIN sprints
              /\ sprints[tasks[t].sprint_id].project_id = tasks[t].project_id

\* Project 1 and its sprint were deleted; the sprint created since for
\* project 2 has the id 1 again, the backlog task 3 has just been moved to
\* it, and a task created in project 2 is in it as well.
C24_Witness ==
    /\ last.op = "move_to_sprint"
    /\ last.arg = <<3, 1>>
    /\ last.ret
    /\ DOMAIN projects = {2}
    /\ 1 \in DOMAIN sprints
    /\ sprints[1].project_id = 2
    /\ Cardinality({t \in DOMAIN tasks : tasks[t].sprint_id = 1}) = 2

---------------------------------------------------------------------------
\* C25: no step changes or clears the sprint reference of a Task that has
\* one and stays in the store, and its Sprint stays with it, so that the
\* Task is on no backlog afterwards;
\* a Move to Sprint that went through was made on a Task without a sprint
\* reference.
SprintAssignedOnce ==
    /\ \A t \in DOMAIN tasks :
          (tasks[t].sprint_id # None /\ t \in DOMAIN tasks')
             => /\ tasks'[t].sprint_id = tasks[t].sprint_id
                /\ tasks'[t].sprint_id \in DOMAIN sprints'
    /\ \A t \in DOMAIN tasks :
          (last'.op = "move_to_sprint" /\ last'.arg[1] = t /\ last'.ret)
             => /\ tasks[t].sprint_id = None
                /\ tasks'[t].sprint_id = last'.arg[2]

C25_SprintAssignedOnce == [][SprintAssignedOnce]_vars

\* Every task of project 1 is in a sprint, one of them moved there from the
\* backlog a while ago and the last one created in a sprint, and nothing is
\* left to assign on the Sprint Management page.
C25_Witness ==
    /\ OnPage("Sprint Management")
    /\ DOMAIN projects = {1, 2}
    /\ backlog_tasks(1) = {}
    /\ Cardinality(ProjectTasks(Db, 1)) = 3
    /\ 2 \in DOMAIN tasks
    /\ tasks[2].sprint_id # None
    /\ last.op = "navigate"


---------------------------------------------------------------------------
\* A step leaves the status of every Sprint that stays as it was, and a
\* Sprint it adds has the status Planning, or Active if the seed added it.
SprintStatusKept ==
    /\ \A x \in DOMAIN sprints :
          x \in DOMAIN sprints' => sprints'[x].status = sprints[x].status
    /\ \A x \in DOMAIN sprints' \ DOMAIN sprints :
          sprints'[x].status = IF last'.op = "logout" THEN "Active" ELSE "Planning"

\* C26: a Sprint's status never changes after the Sprint is created, with
\* Planning, or with Active for the seeded one; in no reachable state is a
\* Sprint Completed, and whenever the reports page is shown its sprint
\* velocity data has no row.
C26_SprintStatusFixed ==
    /\ [](/\ \A x \in DOMAIN sprints : sprints[x].status \in {"Planning", "Active"}
          /\ view.name = "Reports & Analytics" => view.velocity_data = <<>>)
    /\ [][SprintStatusKept]_vars

\* The reports page is shown while the store holds the seeded sprint and a
\* sprint created since, with a task in it.
C26_Witness ==
    /\ view.name = "Reports & Analytics"
    /\ view.velocity_data = <<>>
    /\ DOMAIN sprints = {1, 2}
    /\ sprints[1].status = "Active"
    /\ sprints[2].status = "Planning"
    /\ \E t \in DOMAIN tasks : tasks[t].sprint_id = 2


---------------------------------------------------------------------------
\* C27: no step of an authenticated session whose role is Viewer changes a
\* table of the store: not a Task's status, not the TimeLogs, not a Task's
\* sprint reference.
C27_ViewerChangesNothing ==
    [][(session_state.is_authenticated /\ session_state.user_role = "Viewer")
          => UNCHANGED <<users, projects, tasks, sprints, risks, time_logs>>]_vars

\* C28: while a session is authenticated, the role held in the session is
\* the role the store holds for the session's user, also after an
\* update_role on the Administration page.
C28_SessionRoleCurrent ==
    session_state.is_authenticated
        => /\ session_state.user_id \in DOMAIN users
           /\ session_state.user_role = users[session_state.user_id].role


\* C29: while the session is not authenticated only the login page runs.
\* A step that starts or ends in an unauthenticated session (a registration,
\* a login attempt, and the logout with the run of main_app that follows it
\* on the cleared session) leaves Projects, Tasks, Sprints, Risks and
\* TimeLogs as they are and changes the Users only by a registration; the
\* page shown to an unauthenticated session is the login page; and logout
\* leaves is_authenticated = FALSE and current_page = "Login" with user_id,
\* username and user_role removed from the session.
C29_UnauthenticatedOnlyRegisters ==
    /\ [](~session_state.is_authenticated => view.name = "login_page")
    /\ [][/\ (~session_state.is_authenticated \/ ~session_state'.is_authenticated)
               => /\ UNCHANGED <<projects, tasks, sprints, risks, time_logs>>
                  /\ users' # users => last'.op = "register"
          /\ last'.op = "logout"
               => /\ ~session_state'.is_authenticated
                  /\ session_state'.current_page = "Login"
                  /\ DOMAIN session_state' \cap {"user_id", "username", "user_role"} = {}
         ]_vars


============================================================================
